---- MODULE Spec2Model ----
(***************************************************************************)
(* Rolotabs: the BookmarkIndex (src/lib/bookmark-index.ts), the URL        *)
(* matcher (src/lib/urls.ts) and reorderItem, as a state machine.          *)
(*                                                                         *)
(* Bookmark ids, tab ids and URLs are strings.  The JS values null and     *)
(* undefined are the strings Null and Undef.  A Map is a function whose    *)
(* DOMAIN is its key set; a Set that is iterated is a duplicate-free       *)
(* sequence in insertion order.  parentId and index of a bookmark are      *)
(* copied by the index and never read: they are left out of the entries.   *)
(* The tree that rebuild keeps for rendering (roots, the children arrays)  *)
(* is kept as the tree of its nodes' ids.                                  *)
(*                                                                         *)
(* Spec and SpecPinned run the index under every sequence of calls; the    *)
(* variable `call` stays NoCall there.  SpecActive is Spec with            *)
(* setActiveTab.  SpecRebuild examines one call of rebuild on a new index: *)
(* `call` holds its arguments.  SpecPanel runs rebuild, addBookmark,       *)
(* removeBookmark and getState and follows the tree objects that have left *)
(* the store (detached).                                                   *)
(*                                                                         *)
(* SpecBackground is the service worker (src/background.ts): its two maps  *)
(* bookmarkToTab and tabToBookmark, the browser's bookmarks and tabs, and  *)
(* its listeners and message handlers as sequences of steps from one await *)
(* to the next, interleaved in every order.                                *)
(*                                                                         *)
(* SpecGroups is tab grouping (src/lib/grouping.ts) against the browser's  *)
(* tab strip and tab groups: the two group handles, the functions of       *)
(* grouping.ts, and the user opening, closing, grouping and ungrouping     *)
(* tabs and the worker restarting in between.  SpecZones runs the          *)
(* listeners and message handlers of background.ts that decide a tab's     *)
(* zone, each from start to end, with the groups they make.  SpecNotify is *)
(* notifySidePanel and its timer, time in ticks; SpecNotifyFair adds that  *)
(* time passes and a due callback runs.  SpecWalk is the walk toward the   *)
(* root (isUnderRoot of src/lib/state.ts and of background.js), one loop   *)
(* turn per step; SpecWalkFair adds that a loop keeps running.  SpecUrls   *)
(* evaluates urlsMatch on arguments chosen in the initial state.  SpecAdds *)
(* runs two calls of addTabToGroup step by step, from one await to the     *)
(* next, interleaved in every order.                                       *)
(***************************************************************************)
EXTENDS Integers, Sequences, FiniteSets, TLC

VARIABLES byId, tabToBookmarkId, urlToBookmarkIds, pinnedIds, roots, rootFolderId,
          detached, call,
          bookmarkToTab, tabToBookmark, chrome, tasks,
          pinnedGroupId, bookmarkedGroupId, bgPinnedIds, notifyTimeout, messages

\* the rest of the service worker's module state: the two group handles
\* (grouping.ts 10-11, background.ts 30-31), pinnedIds of background.ts
\* (line 24; the name pinnedIds is the index's here), the debounce timer of
\* notifySidePanel and the messages it has sent
workerVars == <<pinnedGroupId, bookmarkedGroupId, bgPinnedIds, notifyTimeout, messages>>

\* the module state of background.ts, the browser it talks to and its
\* handlers in progress
backgroundVars == <<bookmarkToTab, tabToBookmark, chrome, tasks, workerVars>>

vars == <<byId, tabToBookmarkId, urlToBookmarkIds, pinnedIds, roots, rootFolderId, detached, call,
          backgroundVars>>

(***************************************************************************)
(* Bounds of the model.                                                    *)
(***************************************************************************)
MaxBookmarks == 2
MaxTabs == 2
MaxPinned == 3

Null == "null"
Undef == "undefined"

BookmarkNames == <<"b1", "b2", "b3", "b4">>
TabNames == <<"t1", "t2", "t3", "t4">>

BookmarkIds == {BookmarkNames[i] : i \in 1..MaxBookmarks}
TabIds == {TabNames[i] : i \in 1..MaxTabs}
BarId == "1"
OtherId == "2"
FolderId == "f1"
AllIds == BookmarkIds \cup {FolderId, BarId, OtherId}

(***************************************************************************)
(* URLs.  ParseUrl is the platform's `new URL(u)` on the strings of the    *)
(* model: origin, pathname (as its sequence of tokens), search; ok = FALSE *)
(* when the constructor throws.                                            *)
(***************************************************************************)
UrlA == "https://a.com/x"
UrlASlash == "https://a.com/x/"
UrlAHash == "https://a.com/x#f"
UrlB == "https://b.com/y"
UrlRaw == "not a url"
UrlRawSlash == "not a url/"
UrlASlashes == "https://a.com/x//"
UrlAQuery == "https://a.com/x?q=1"
UrlAQuerySlashHash == "https://a.com/x/?q=1#f"
UrlAQuery2 == "https://a.com/x?q=2"
UrlADeep == "https://a.com/x/y"
UrlAUpper == "HTTPS://A.COM/x"
UrlAHttp == "http://a.com/x"
UrlAHost == "https://a.com"
UrlARoot == "https://a.com/"
UrlBlank == "about:blank"

Urls == {UrlA, UrlASlash, UrlAHash, UrlB, UrlRaw, ""}

ParseUrl(u) ==
  CASE u = UrlA      -> [ok |-> TRUE, origin |-> "https://a.com", pathname |-> <<"/", "x">>, search |-> ""]
    [] u = UrlASlash -> [ok |-> TRUE, origin |-> "https://a.com", pathname |-> <<"/", "x", "/">>, search |-> ""]
    [] u = UrlAHash  -> [ok |-> TRUE, origin |-> "https://a.com", pathname |-> <<"/", "x">>, search |-> ""]
    [] u = UrlB      -> [ok |-> TRUE, origin |-> "https://b.com", pathname |-> <<"/", "y">>, search |-> ""]
    [] u = UrlASlashes -> [ok |-> TRUE, origin |-> "https://a.com", pathname |-> <<"/", "x", "/", "/">>, search |-> ""]
    [] u = UrlAQuery -> [ok |-> TRUE, origin |-> "https://a.com", pathname |-> <<"/", "x">>, search |-> "?q=1"]
    [] u = UrlAQuerySlashHash
                     -> [ok |-> TRUE, origin |-> "https://a.com", pathname |-> <<"/", "x", "/">>, search |-> "?q=1"]
    [] u = UrlAQuery2 -> [ok |-> TRUE, origin |-> "https://a.com", pathname |-> <<"/", "x">>, search |-> "?q=2"]
    [] u = UrlADeep  -> [ok |-> TRUE, origin |-> "https://a.com", pathname |-> <<"/", "x", "/", "y">>, search |-> ""]
    [] u = UrlAUpper -> [ok |-> TRUE, origin |-> "https://a.com", pathname |-> <<"/", "x">>, search |-> ""]
    [] u = UrlAHttp  -> [ok |-> TRUE, origin |-> "http://a.com", pathname |-> <<"/", "x">>, search |-> ""]
    [] u = UrlAHost  -> [ok |-> TRUE, origin |-> "https://a.com", pathname |-> <<"/">>, search |-> ""]
    [] u = UrlARoot  -> [ok |-> TRUE, origin |-> "https://a.com", pathname |-> <<"/">>, search |-> ""]
    [] u = UrlBlank  -> [ok |-> TRUE, origin |-> "null", pathname |-> <<"blank">>, search |-> ""]
    [] OTHER         -> [ok |-> FALSE, origin |-> "", pathname |-> <<>>, search |-> ""]

\* pathname.replace(/\/+$/, ""): drop the run of "/" tokens at the end.
RECURSIVE StripTrailingSlashes(_)
StripTrailingSlashes(p) ==
  IF p # <<>> /\ p[Len(p)] = "/" THEN StripTrailingSlashes(SubSeq(p, 1, Len(p) - 1))
  ELSE p

RECURSIVE JoinTokens(_)
JoinTokens(p) == IF p = <<>> THEN "" ELSE Head(p) \o JoinTokens(Tail(p))

\* the comparison without the query string
normalize_noSearch(parsed) ==
  parsed.origin \o JoinTokens(StripTrailingSlashes(parsed.pathname))

\* urls.ts normalize(url: URL): origin + pathname without trailing slashes + search
normalize(parsed) ==
  parsed.origin \o JoinTokens(StripTrailingSlashes(parsed.pathname)) \o parsed.search

\* JS truthiness of an optional string
Truthy(u) == u # Undef /\ u # Null /\ u # ""

urlsMatch(url1, url2) ==
  IF ~Truthy(url1) \/ ~Truthy(url2) THEN FALSE
  ELSE IF ParseUrl(url1).ok /\ ParseUrl(url2).ok
       THEN normalize(ParseUrl(url1)) = normalize(ParseUrl(url2))
       ELSE url1 = url2

\* BookmarkIndex.normalizeUrl: null for the empty string, the raw string when
\* it does not parse.
normalizeUrl(url) ==
  IF ParseUrl(url).ok
  THEN ParseUrl(url).origin \o JoinTokens(StripTrailingSlashes(ParseUrl(url).pathname))
         \o ParseUrl(url).search
  ELSE IF url # "" THEN url ELSE Null

(***************************************************************************)
(* Maps and sequences.                                                     *)
(***************************************************************************)
EmptyMap == [k \in {} |-> Null]
MapSet(m, k, v) == [x \in (DOMAIN m) \cup {k} |-> IF x = k THEN v ELSE m[x]]
MapDelete(m, k) == [x \in (DOMAIN m) \ {k} |-> m[x]]

Range(s) == {s[i] : i \in DOMAIN s}
Includes(s, x) == \E i \in DOMAIN s : s[i] = x
\* Array.indexOf, 0-based, -1 when absent
IndexOf(s, x) ==
  IF Includes(s, x) THEN (CHOOSE i \in DOMAIN s : s[i] = x /\ \A j \in 1..(i - 1) : s[j] # x) - 1
  ELSE -1
\* Array.splice(at, 1) and Array.splice(at, 0, x), 0-based
SpliceOut(s, at) == SubSeq(s, 1, at) \o SubSeq(s, at + 2, Len(s))
SpliceIn(s, at, x) == SubSeq(s, 1, at) \o <<x>> \o SubSeq(s, at + 1, Len(s))
Max(a, b) == IF a > b THEN a ELSE b
Min(a, b) == IF a < b THEN a ELSE b
NoDup(s) == \A i, j \in DOMAIN s : i # j => s[i] # s[j]

(***************************************************************************)
(* Input data: BookmarkNode trees and TabInfo snapshots.                   *)
(* A node is [id, title, url, parentId, children], its title being its id; *)
(* a folder has url = Undef and a leaf has children = <<>>.  A TabInfo is [id, url, favIconUrl]; an     *)
(* omitted optional `tab` argument is NoTabInfo, whose fields are all      *)
(* undefined (the code reads an omitted tab only through `if (tab)` and    *)
(* `tab?.x`).                                                              *)
(***************************************************************************)
Node(id, url, parentId, children) ==
  [id |-> id, title |-> id, url |-> url, parentId |-> parentId, children |-> children]

TabInfo(id, url, favIconUrl) == [id |-> id, url |-> url, favIconUrl |-> favIconUrl]
NoTabInfo == TabInfo(Undef, Undef, Undef)

RECURSIVE AllNodes(_)
\* the nodes of a forest in pre-order
AllNodes(nodes) ==
  IF nodes = <<>> THEN <<>>
  ELSE <<Head(nodes)>> \o AllNodes(Head(nodes).children) \o AllNodes(Tail(nodes))

NodeIds(nodes) == {n.id : n \in Range(AllNodes(nodes))}

RECURSIVE ConcatChildren(_)
ConcatChildren(nodes) ==
  IF nodes = <<>> THEN <<>> ELSE Head(nodes).children \o ConcatChildren(Tail(nodes))

\* rebuild's flatBookmarks: the nodes with a url below the top-level nodes,
\* in traversal order
flatBookmarks(tree) ==
  SelectSeq(AllNodes(ConcatChildren(tree)), LAMBDA n : Truthy(n.url))

(***************************************************************************)
(* The index.  An operation is an operator from the index s (a record of   *)
(* the object's fields) to the index after the call.                       *)
(*   byId              Map<string, ManagedBookmark>                        *)
(*   tabToBookmarkId   Map<number, string>                                 *)
(*   urlToBookmarkIds  Map<string, Set<string>>, each Set in insertion     *)
(*                     order                                               *)
(*   pinnedIds         string[]                                            *)
(*   roots             ManagedBookmark[], as the tree of the nodes' ids    *)
(*   rootFolderId      string                                              *)
(***************************************************************************)
Managed(node, isPinned, tabId, tab) ==
  [id |-> node.id, title |-> node.title, url |-> node.url,
   isFolder |-> ~Truthy(node.url), isPinned |-> isPinned,
   tabId |-> tabId, isLoaded |-> tabId # Null, isActive |-> FALSE,
   tabUrl |-> IF Truthy(tab.url) THEN tab.url ELSE Undef,
   favIconUrl |-> IF Truthy(tab.favIconUrl) THEN tab.favIconUrl ELSE Undef]

EmptyIndex ==
  [byId |-> EmptyMap, tabToBookmarkId |-> EmptyMap, urlToBookmarkIds |-> EmptyMap,
   pinnedIds |-> <<>>, roots |-> <<>>, rootFolderId |-> ""]

\* urlToBookmarkIds.get(normalized) ?? new Set, then set.add(id)
UrlIndexAdd(index, url, id) ==
  LET normalized == normalizeUrl(url) IN
  IF normalized = Null THEN index
  ELSE IF normalized \notin DOMAIN index THEN MapSet(index, normalized, <<id>>)
  ELSE IF Includes(index[normalized], id) THEN index
  ELSE MapSet(index, normalized, Append(index[normalized], id))

\* set.delete(id); if (set.size === 0) urlToBookmarkIds.delete(normalized)
UrlIndexRemove(index, url, id) ==
  LET normalized == normalizeUrl(url) IN
  IF normalized = Null \/ normalized \notin DOMAIN index THEN index
  ELSE LET rest == SelectSeq(index[normalized], LAMBDA x : x # id) IN
       IF rest = <<>> THEN MapDelete(index, normalized)
       ELSE MapSet(index, normalized, rest)

\* tabs.find(pred): the first tab of the list among those the predicate
\* accepts, NoTabInfo if none
FindTab(tabs, accepted) ==
  LET hits == SelectSeq(tabs, LAMBDA t : t \in accepted) IN
  IF hits = <<>> THEN NoTabInfo ELSE Head(hits)

\* getTabId: the first key of tabToBookmarkId mapped to bookmarkId.  Where two
\* tabs map to one bookmark the Map's insertion order decides; the model chooses
\* one of them.
getTabId(s, bookmarkId) ==
  IF \E t \in DOMAIN s.tabToBookmarkId : s.tabToBookmarkId[t] = bookmarkId
  THEN CHOOSE t \in DOMAIN s.tabToBookmarkId : s.tabToBookmarkId[t] = bookmarkId
  ELSE Null

\* bm.<field> = <value> for each field of `fields`
Assign(bm, fields) == [f \in DOMAIN bm |-> IF f \in DOMAIN fields THEN fields[f] ELSE bm[f]]

\* const bm = this.byId.get(id); if (bm) { bm.<field> = <value>; ... }
Patch(s, id, fields) ==
  IF id \in DOMAIN s.byId THEN [s EXCEPT !.byId[id] = Assign(@, fields)] ELSE s

(***************************************************************************)
(* rebuild                                                                 *)
(***************************************************************************)
RECURSIVE BuildUrlIndex(_, _)
\* for (const bm of flatBookmarks) { ... set.add(bm.id) }
BuildUrlIndex(index, flat) ==
  IF flat = <<>> THEN index
  ELSE BuildUrlIndex(UrlIndexAdd(index, Head(flat).url, Head(flat).id), Tail(flat))

RECURSIVE MatchTabs_reuseTabs(_, _, _, _)
\* the matching loop without `usedTabIds.add(matchingTab.id)`: a tab an earlier
\* bookmark took is offered again
MatchTabs_reuseTabs(map, usedTabIds, flat, tabs) ==
  IF flat = <<>> THEN map
  ELSE LET bm == Head(flat)
           matchingTab == FindTab(tabs, {t \in Range(tabs) : urlsMatch(t.url, bm.url)})
       IN  IF matchingTab # NoTabInfo
           THEN MatchTabs_reuseTabs(MapSet(map, matchingTab.id, bm.id), usedTabIds, Tail(flat), tabs)
           ELSE MatchTabs_reuseTabs(map, usedTabIds, Tail(flat), tabs)

RECURSIVE MatchTabs(_, _, _, _)
\* for (const bm of flatBookmarks) { tabs.find(...); usedTabIds.add; tabToBookmarkId.set }
MatchTabs(map, usedTabIds, flat, tabs) ==
  IF flat = <<>> THEN map
  ELSE LET bm == Head(flat)
           matchingTab == FindTab(tabs, {t \in Range(tabs) : urlsMatch(t.url, bm.url) /\ t.id \notin usedTabIds})
       IN  IF matchingTab # NoTabInfo
           THEN MatchTabs(MapSet(map, matchingTab.id, bm.id), usedTabIds \cup {matchingTab.id},
                          Tail(flat), tabs)
           ELSE MatchTabs(map, usedTabIds, Tail(flat), tabs)

\* tabById.get(id): the last tab of the list with that id
TabById(tabs, id) ==
  LET hits == SelectSeq(tabs, LAMBDA t : t.id = id) IN
  IF hits = <<>> THEN NoTabInfo ELSE hits[Len(hits)]

RECURSIVE Shape(_)
\* this.roots = tree.map(annotate), as the ids of the managed objects:
\* managed.children = node.children.map(annotate)
Shape(nodes) ==
  [i \in DOMAIN nodes |-> [id |-> nodes[i].id, children |-> Shape(nodes[i].children)]]

RECURSIVE AnnotateAll(_, _, _, _, _)
\* annotate(node) for every node of the tree: this.byId.set(node.id, managed)
AnnotateAll(map, nodes, pinned, tabMap, tabs) ==
  IF nodes = <<>> THEN map
  ELSE LET node == Head(nodes)
           associatedTabId ==
             IF \E t \in DOMAIN tabMap : tabMap[t] = node.id
             THEN CHOOSE t \in DOMAIN tabMap : tabMap[t] = node.id
             ELSE Null
           tab == IF associatedTabId # Null THEN TabById(tabs, associatedTabId) ELSE NoTabInfo
       IN  AnnotateAll(MapSet(map, node.id, Managed(node, Includes(pinned, node.id), associatedTabId, tab)),
                       Tail(nodes), pinned, tabMap, tabs)

\* rebuild without `this.tabToBookmarkId.clear()`: the matching loop adds to
\* the associations the index held before
rebuild_keepTabs(s, tree, tabs, pinned, root) ==
  LET cleared == [s EXCEPT !.byId = EmptyMap,
                           !.urlToBookmarkIds = EmptyMap, !.pinnedIds = pinned,
                           !.rootFolderId = root]
      flat == flatBookmarks(tree)
      matched == MatchTabs(cleared.tabToBookmarkId, {}, flat, tabs)
  IN  [cleared EXCEPT
         !.urlToBookmarkIds = BuildUrlIndex(cleared.urlToBookmarkIds, flat),
         !.tabToBookmarkId = matched,
         !.byId = AnnotateAll(cleared.byId, AllNodes(tree), pinned, matched, tabs),
         !.roots = Shape(tree)]

\* rebuild keeping of pinnedIds only the ids of the tree's nodes
rebuild_dropStale(s, tree, tabs, pinned, root) ==
  LET cleared == [s EXCEPT !.byId = EmptyMap, !.tabToBookmarkId = EmptyMap,
                           !.urlToBookmarkIds = EmptyMap,
                           !.pinnedIds = SelectSeq(pinned, LAMBDA id : id \in NodeIds(tree)),
                           !.rootFolderId = root]
      flat == flatBookmarks(tree)
      matched == MatchTabs(cleared.tabToBookmarkId, {}, flat, tabs)
  IN  [cleared EXCEPT
         !.urlToBookmarkIds = BuildUrlIndex(cleared.urlToBookmarkIds, flat),
         !.tabToBookmarkId = matched,
         !.byId = AnnotateAll(cleared.byId, AllNodes(tree), pinned, matched, tabs),
         !.roots = Shape(tree)]

rebuild(s, tree, tabs, pinned, root) ==
  LET cleared == [s EXCEPT !.byId = EmptyMap, !.tabToBookmarkId = EmptyMap,
                           !.urlToBookmarkIds = EmptyMap, !.pinnedIds = pinned,
                           !.rootFolderId = root]
      flat == flatBookmarks(tree)
      matched == MatchTabs(cleared.tabToBookmarkId, {}, flat, tabs)
  IN  [cleared EXCEPT
         !.urlToBookmarkIds = BuildUrlIndex(cleared.urlToBookmarkIds, flat),
         !.tabToBookmarkId = matched,
         !.byId = AnnotateAll(cleared.byId, AllNodes(tree), pinned, matched, tabs),
         !.roots = Shape(tree)]

(***************************************************************************)
(* Active tab                                                              *)
(***************************************************************************)
setActiveTab(s, tabId) ==
  LET cleared == [s EXCEPT !.byId = [id \in DOMAIN s.byId |-> [s.byId[id] EXCEPT !.isActive = FALSE]]]
  IN  IF tabId # Null /\ tabId \in DOMAIN s.tabToBookmarkId
      THEN Patch(cleared, s.tabToBookmarkId[tabId], [isActive |-> TRUE])
      ELSE cleared

(***************************************************************************)
(* Association management                                                  *)
(***************************************************************************)
\* tabId = null; isLoaded = false; isActive = false; tabUrl = undefined;
\* favIconUrl = undefined
Unload ==
  [tabId |-> Null, isLoaded |-> FALSE, isActive |-> FALSE, tabUrl |-> Undef, favIconUrl |-> Undef]

\* if (tab?.favIconUrl) bm.favIconUrl = tab.favIconUrl
IconFrom(tab) == IF Truthy(tab.favIconUrl) THEN [favIconUrl |-> tab.favIconUrl] ELSE EmptyMap

\* if (tab.url) bm.tabUrl = tab.url
UrlFrom(tab) == IF Truthy(tab.url) THEN [tabUrl |-> tab.url] ELSE EmptyMap

\* tabId = tabId; isLoaded = true; and of the tab, when given, its icon and URL
Load(tabId, tab) ==
  [tabId |-> tabId, isLoaded |-> TRUE] @@ IconFrom(tab) @@ UrlFrom(tab)

\* associate without `if (oldTabId !== null) this.tabToBookmarkId.delete(oldTabId)`:
\* the bookmark's previous tab stays in the map.
associate_keepOldTab(s, bookmarkId, tabId, tab) ==
  LET oldBookmarkId == IF tabId \in DOMAIN s.tabToBookmarkId THEN s.tabToBookmarkId[tabId] ELSE Undef
      s1 == IF oldBookmarkId # Undef /\ oldBookmarkId # bookmarkId
            THEN Patch(s, oldBookmarkId, Unload)
            ELSE s
      s3 == [s1 EXCEPT !.tabToBookmarkId = MapSet(@, tabId, bookmarkId)]
  IN  Patch(s3, bookmarkId, Load(tabId, tab))

\* associate without the `if (oldBookmarkId && oldBookmarkId !== bookmarkId)`
\* block: the bookmark that held the tab keeps its tabId and isLoaded
associate_keepOldBookmark(s, bookmarkId, tabId, tab) ==
  LET oldTabId == getTabId(s, bookmarkId)
      s2 == IF oldTabId # Null
            THEN [s EXCEPT !.tabToBookmarkId = MapDelete(@, oldTabId)]
            ELSE s
      s3 == [s2 EXCEPT !.tabToBookmarkId = MapSet(@, tabId, bookmarkId)]
  IN  Patch(s3, bookmarkId, Load(tabId, tab))

associate(s, bookmarkId, tabId, tab) ==
  LET oldBookmarkId == IF tabId \in DOMAIN s.tabToBookmarkId THEN s.tabToBookmarkId[tabId] ELSE Undef
      s1 == IF oldBookmarkId # Undef /\ oldBookmarkId # bookmarkId
            THEN Patch(s, oldBookmarkId, Unload)
            ELSE s
      oldTabId == getTabId(s1, bookmarkId)
      s2 == IF oldTabId # Null
            THEN [s1 EXCEPT !.tabToBookmarkId = MapDelete(@, oldTabId)]
            ELSE s1
      s3 == [s2 EXCEPT !.tabToBookmarkId = MapSet(@, tabId, bookmarkId)]
  IN  Patch(s3, bookmarkId, Load(tabId, tab))

\* dissociate that leaves `isActive` and `tabUrl` as they were
dissociate_keepActive(s, bookmarkId) ==
  LET tabId == getTabId(s, bookmarkId)
      s1 == IF tabId # Null THEN [s EXCEPT !.tabToBookmarkId = MapDelete(@, tabId)] ELSE s
  IN  Patch(s1, bookmarkId, [tabId |-> Null, isLoaded |-> FALSE, favIconUrl |-> Undef])

dissociate(s, bookmarkId) ==
  LET tabId == getTabId(s, bookmarkId)
      s1 == IF tabId # Null THEN [s EXCEPT !.tabToBookmarkId = MapDelete(@, tabId)] ELSE s
  IN  Patch(s1, bookmarkId, Unload)

dissociateTab(s, tabId) ==
  IF tabId \in DOMAIN s.tabToBookmarkId THEN dissociate(s, s.tabToBookmarkId[tabId]) ELSE s

\* the candidates loop without the `!bm.isLoaded` test: a bookmark that holds a
\* tab is taken again
FirstFree_loadedToo(s, candidates) ==
  LET free == SelectSeq(candidates, LAMBDA bmId : bmId \in DOMAIN s.byId)
  IN  IF free = <<>> THEN Null ELSE Head(free)

\* the first candidate of the URL's set that is in byId and not loaded, Null if none
FirstFree(s, candidates) ==
  LET free == SelectSeq(candidates, LAMBDA bmId : bmId \in DOMAIN s.byId /\ ~s.byId[bmId].isLoaded)
  IN  IF free = <<>> THEN Null ELSE Head(free)

\* the matched bookmark id (or Null) and the index after the call
tryAssociateByUrl(s, tabId, url, tab) ==
  LET normalized == normalizeUrl(url) IN
  IF normalized = Null THEN [result |-> Null, index |-> s]
  ELSE IF normalized \notin DOMAIN s.urlToBookmarkIds THEN [result |-> Null, index |-> s]
  ELSE LET bmId == FirstFree(s, s.urlToBookmarkIds[normalized]) IN
       IF bmId # Null
       THEN [result |-> bmId, index |-> associate(s, bmId, tabId, tab)]
       ELSE [result |-> Null, index |-> s]

(***************************************************************************)
(* Pinned management                                                       *)
(***************************************************************************)
pin(s, bookmarkId) ==
  IF ~Includes(s.pinnedIds, bookmarkId)
  THEN Patch([s EXCEPT !.pinnedIds = Append(@, bookmarkId)], bookmarkId,
             [isPinned |-> TRUE])
  ELSE s

\* unpin with `this.pinnedIds.splice(idx)`: the ids after bookmarkId go too
unpin_truncate(s, bookmarkId) ==
  LET idx == IndexOf(s.pinnedIds, bookmarkId) IN
  IF idx # -1
  THEN Patch([s EXCEPT !.pinnedIds = SubSeq(@, 1, idx)], bookmarkId,
             [isPinned |-> FALSE])
  ELSE s

unpin(s, bookmarkId) ==
  LET idx == IndexOf(s.pinnedIds, bookmarkId) IN
  IF idx # -1
  THEN Patch([s EXCEPT !.pinnedIds = SpliceOut(@, idx)], bookmarkId,
             [isPinned |-> FALSE])
  ELSE s

\* reorderPinned inserting before it removes: the removal at fromIndex then
\* takes whatever the insertion shifted there
reorderPinned_insertFirst(s, bookmarkId, toIndex) ==
  LET fromIndex == IndexOf(s.pinnedIds, bookmarkId) IN
  IF fromIndex = -1 THEN s
  ELSE LET clamped == Max(0, Min(toIndex, Len(s.pinnedIds)))
           inserted == SpliceIn(s.pinnedIds, clamped, bookmarkId)
       IN  [s EXCEPT !.pinnedIds = SpliceOut(inserted, fromIndex)]

reorderPinned(s, bookmarkId, toIndex) ==
  LET fromIndex == IndexOf(s.pinnedIds, bookmarkId) IN
  IF fromIndex = -1 THEN s
  ELSE LET removed == SpliceOut(s.pinnedIds, fromIndex)
           clamped == Max(0, Min(toIndex, Len(removed)))
       IN  [s EXCEPT !.pinnedIds = SpliceIn(removed, clamped, bookmarkId)]

\* cleanupPinned reading `before` after the filter: it never reports a removal
cleanupPinned_lateBefore(s) ==
  LET kept == SelectSeq(s.pinnedIds, LAMBDA id : id \in DOMAIN s.byId) IN
  [result |-> Len(kept) # Len(kept),
   index |-> [s EXCEPT !.pinnedIds = kept,
                       !.byId = [id \in DOMAIN s.byId |->
                                   [s.byId[id] EXCEPT !.isPinned = Includes(kept, s.byId[id].id)]]]]

\* whether any id was removed, and the index after the call
cleanupPinned(s) ==
  LET kept == SelectSeq(s.pinnedIds, LAMBDA id : id \in DOMAIN s.byId) IN
  [result |-> Len(kept) # Len(s.pinnedIds),
   index |-> [s EXCEPT !.pinnedIds = kept,
                       !.byId = [id \in DOMAIN s.byId |->
                                   [s.byId[id] EXCEPT !.isPinned = Includes(kept, s.byId[id].id)]]]]

\* src/lib/reorder.ts
reorderItem(list, item, toIndex) ==
  LET fromIndex == IndexOf(list, item) IN
  IF fromIndex = -1 THEN list
  ELSE LET result == SpliceOut(list, fromIndex)
           clamped == Max(0, Min(toIndex, Len(result)))
       IN  SpliceIn(result, clamped, item)

(***************************************************************************)
(* Tab navigation                                                          *)
(***************************************************************************)
handleTabNavigation(s, tabId, newUrl, tab) ==
  IF tabId \in DOMAIN s.tabToBookmarkId
  THEN LET currentBookmarkId == s.tabToBookmarkId[tabId]
           s1 == Patch([s EXCEPT !.tabToBookmarkId = MapDelete(@, tabId)], currentBookmarkId,
                       [tabId |-> Null, isLoaded |-> FALSE])
           try == tryAssociateByUrl(s1, tabId, newUrl, tab)
       IN  IF try.result = Null
           THEN Patch([try.index EXCEPT !.tabToBookmarkId = MapSet(@, tabId, currentBookmarkId)],
                      currentBookmarkId,
                      [tabId |-> tabId, isLoaded |-> TRUE, tabUrl |-> newUrl] @@ IconFrom(tab))
           ELSE try.index
  ELSE tryAssociateByUrl(s, tabId, newUrl, tab).index

\* info is [url, favIconUrl], a field left out being undefined
updateTabInfo(s, tabId, info) ==
  IF tabId \notin DOMAIN s.tabToBookmarkId THEN s
  ELSE IF s.tabToBookmarkId[tabId] \notin DOMAIN s.byId THEN s
  ELSE Patch(s, s.tabToBookmarkId[tabId],
             (IF info.favIconUrl # Undef THEN [favIconUrl |-> info.favIconUrl] ELSE EmptyMap)
               @@ (IF info.url # Undef THEN [tabUrl |-> info.url] ELSE EmptyMap))

(***************************************************************************)
(* Bookmark mutations                                                      *)
(***************************************************************************)
\* addBookmark with `isPinned: false` for the new entry
addBookmark_notPinned(s, node, tabs) ==
  LET bm == Managed(node, FALSE, Null, NoTabInfo)
      s1 == [s EXCEPT !.byId = MapSet(@, node.id, bm)]
  IN  IF Truthy(node.url)
      THEN LET s2 == [s1 EXCEPT !.urlToBookmarkIds = UrlIndexAdd(@, node.url, node.id)]
               matchingTab == FindTab(tabs, {t \in Range(tabs) : urlsMatch(t.url, node.url)
                                                      /\ t.id \notin DOMAIN s2.tabToBookmarkId})
           IN  IF matchingTab # NoTabInfo
               THEN associate(s2, node.id, matchingTab.id, matchingTab)
               ELSE s2
      ELSE s1

\* addBookmark taking the first matching tab, held by a bookmark or not
addBookmark_anyTab(s, node, tabs) ==
  LET bm == Managed(node, Includes(s.pinnedIds, node.id), Null, NoTabInfo)
      s1 == [s EXCEPT !.byId = MapSet(@, node.id, bm)]
  IN  IF Truthy(node.url)
      THEN LET s2 == [s1 EXCEPT !.urlToBookmarkIds = UrlIndexAdd(@, node.url, node.id)]
               matchingTab == FindTab(tabs, {t \in Range(tabs) : urlsMatch(t.url, node.url)})
           IN  IF matchingTab # NoTabInfo
               THEN associate(s2, node.id, matchingTab.id, matchingTab)
               ELSE s2
      ELSE s1

addBookmark(s, node, tabs) ==
  LET bm == Managed(node, Includes(s.pinnedIds, node.id), Null, NoTabInfo)
      s1 == [s EXCEPT !.byId = MapSet(@, node.id, bm)]
  IN  IF Truthy(node.url)
      THEN LET s2 == [s1 EXCEPT !.urlToBookmarkIds = UrlIndexAdd(@, node.url, node.id)]
               matchingTab == FindTab(tabs, {t \in Range(tabs) : urlsMatch(t.url, node.url)
                                                      /\ t.id \notin DOMAIN s2.tabToBookmarkId})
           IN  IF matchingTab # NoTabInfo
               THEN associate(s2, node.id, matchingTab.id, matchingTab)
               ELSE s2
      ELSE s1

\* removeBookmark without `this.unpin(bookmarkId)`
removeBookmark_keepPinned(s, bookmarkId) ==
  IF bookmarkId \notin DOMAIN s.byId THEN s
  ELSE LET bm == s.byId[bookmarkId]
           s1 == IF bm.tabId # Null
                 THEN [s EXCEPT !.tabToBookmarkId = MapDelete(@, bm.tabId)]
                 ELSE s
           s2 == IF Truthy(bm.url)
                 THEN [s1 EXCEPT !.urlToBookmarkIds = UrlIndexRemove(@, bm.url, bookmarkId)]
                 ELSE s1
       IN  [s2 EXCEPT !.byId = MapDelete(@, bookmarkId)]

removeBookmark(s, bookmarkId) ==
  IF bookmarkId \notin DOMAIN s.byId THEN s
  ELSE LET bm == s.byId[bookmarkId]
           s1 == IF bm.tabId # Null
                 THEN [s EXCEPT !.tabToBookmarkId = MapDelete(@, bm.tabId)]
                 ELSE s
           s2 == IF Truthy(bm.url)
                 THEN [s1 EXCEPT !.urlToBookmarkIds = UrlIndexRemove(@, bm.url, bookmarkId)]
                 ELSE s1
           s3 == unpin(s2, bookmarkId)
       IN  [s3 EXCEPT !.byId = MapDelete(@, bookmarkId)]

\* updateBookmarkUrl that leaves the id in the set of the old URL
updateBookmarkUrl_keepOldUrl(s, bookmarkId, newUrl, tabs) ==
  IF bookmarkId \notin DOMAIN s.byId THEN s
  ELSE LET bm == s.byId[bookmarkId]
           s1 == s
           s2 == IF bm.tabId # Null
                 THEN [s1 EXCEPT !.tabToBookmarkId = MapDelete(@, bm.tabId),
                                 !.byId[bookmarkId] = [@ EXCEPT !.tabId = Null, !.isLoaded = FALSE,
                                                                !.tabUrl = Undef, !.favIconUrl = Undef]]
                 ELSE s1
           s3 == [s2 EXCEPT !.byId[bookmarkId].url = newUrl,
                            !.urlToBookmarkIds = UrlIndexAdd(@, newUrl, bookmarkId)]
           matchingTab == FindTab(tabs, {t \in Range(tabs) : urlsMatch(t.url, newUrl)
                                                  /\ t.id \notin DOMAIN s3.tabToBookmarkId})
       IN  IF matchingTab # NoTabInfo
           THEN associate(s3, bookmarkId, matchingTab.id, matchingTab)
           ELSE s3

updateBookmarkUrl(s, bookmarkId, newUrl, tabs) ==
  IF bookmarkId \notin DOMAIN s.byId THEN s
  ELSE LET bm == s.byId[bookmarkId]
           s1 == IF Truthy(bm.url)
                 THEN [s EXCEPT !.urlToBookmarkIds = UrlIndexRemove(@, bm.url, bookmarkId)]
                 ELSE s
           s2 == IF bm.tabId # Null
                 THEN [s1 EXCEPT !.tabToBookmarkId = MapDelete(@, bm.tabId),
                                 !.byId[bookmarkId] = [@ EXCEPT !.tabId = Null, !.isLoaded = FALSE,
                                                                !.tabUrl = Undef, !.favIconUrl = Undef]]
                 ELSE s1
           s3 == [s2 EXCEPT !.byId[bookmarkId].url = newUrl,
                            !.urlToBookmarkIds = UrlIndexAdd(@, newUrl, bookmarkId)]
           matchingTab == FindTab(tabs, {t \in Range(tabs) : urlsMatch(t.url, newUrl)
                                                  /\ t.id \notin DOMAIN s3.tabToBookmarkId})
       IN  IF matchingTab # NoTabInfo
           THEN associate(s3, bookmarkId, matchingTab.id, matchingTab)
           ELSE s3

updateBookmarkTitle(s, bookmarkId, newTitle) ==
  IF bookmarkId \notin DOMAIN s.byId THEN s
  ELSE Patch(s, bookmarkId, [title |-> newTitle])

(***************************************************************************)
(* State projection.  The tree of roots holds the objects that rebuild     *)
(* made.  byId.set in addBookmark and byId.delete in removeBookmark take   *)
(* such an object out of byId and leave it in its parent's children array: *)
(* from then on no method reaches it and it keeps the fields it has.       *)
(* `detached` maps the ids of those objects to their fields; every other   *)
(* node of the tree is the entry of byId with its id.                      *)
(***************************************************************************)
DetachedAfter(s, det, id) ==
  IF id \in DOMAIN s.byId /\ id \in NodeIds(s.roots) /\ id \notin DOMAIN det
  THEN MapSet(det, id, s.byId[id])
  ELSE det

\* the object of the tree with this id
Resolve(s, det, id) == IF id \in DOMAIN det THEN det[id] ELSE s.byId[id]

\* String.startsWith on the strings of the model
UrlChrome == "chrome://extensions/"
UrlExtension == "chrome-extension://abcdef/panel.html"
UrlQuoting == "https://a.com/?u=chrome://x"
StartsWith(u, prefix) ==
  \/ u = UrlChrome /\ prefix = "chrome://"
  \/ u = UrlExtension /\ prefix = "chrome-extension://"

RECURSIVE Plain(_, _, _)
\* a children array as it is: each object with its own children array
Plain(s, det, nodes) ==
  [i \in DOMAIN nodes |->
     [children |-> Plain(s, det, nodes[i].children)] @@ Resolve(s, det, nodes[i].id)]

\* bm of `pinned.push(bm)`: the entry, with its children array when it is an
\* object of the tree
PinnedItem(s, det, id) ==
  [children |-> IF id \in NodeIds(s.roots) /\ id \notin DOMAIN det
                THEN Plain(s, det, (CHOOSE n \in Range(AllNodes(s.roots)) : n.id = id).children)
                ELSE <<>>] @@ s.byId[id]

RECURSIVE filterPinned_foldersToo(_, _, _)
\* filterPinned with `.filter((n) => !pinnedSet.has(n.id))`: a pinned folder
\* goes too
filterPinned_foldersToo(s, det, nodes) ==
  LET kept == SelectSeq(nodes, LAMBDA n : ~Includes(s.pinnedIds, n.id))
  IN  [i \in DOMAIN kept |->
         [children |-> filterPinned_foldersToo(s, det, kept[i].children)]
           @@ Resolve(s, det, kept[i].id)]

RECURSIVE filterPinned(_, _, _)
filterPinned(s, det, nodes) ==
  LET kept == SelectSeq(nodes, LAMBDA n : ~Includes(s.pinnedIds, n.id) \/ Resolve(s, det, n.id).isFolder)
  IN  [i \in DOMAIN kept |->
         [children |-> filterPinned(s, det, kept[i].children)] @@ Resolve(s, det, kept[i].id)]

OpenTab(t, activeTabId) ==
  [tabId |-> t.id, url |-> t.url, favIconUrl |-> t.favIconUrl, isActive |-> t.id = activeTabId]

\* getState without `.filter((t) => !this.tabToBookmarkId.has(t.id))`: the
\* associated tabs are listed too
getState_allTabs(s, det, activeTabId, allTabs) ==
  LET s1 == setActiveTab(s, activeTabId)
      inStore == SelectSeq(s1.pinnedIds, LAMBDA id : id \in DOMAIN s1.byId)
      pinned == [i \in DOMAIN inStore |-> PinnedItem(s1, det, inStore[i])]
      found == SelectSeq(s1.roots, LAMBDA r : r.id = s1.rootFolderId)
      bookmarks == IF found # <<>>
                   THEN <<[children |-> filterPinned(s1, det, Head(found).children)]
                            @@ Resolve(s1, det, Head(found).id)>>
                   ELSE <<>>
      shown == SelectSeq(allTabs, LAMBDA t : /\ ~StartsWith(t.url, "chrome://")
                                             /\ ~StartsWith(t.url, "chrome-extension://"))
      openTabs == [i \in DOMAIN shown |-> OpenTab(shown[i], activeTabId)]
  IN  [result |-> [pinned |-> pinned, bookmarks |-> bookmarks, openTabs |-> openTabs,
                   activeTabId |-> activeTabId, pinnedIds |-> s1.pinnedIds,
                   rootFolderId |-> s1.rootFolderId],
       index |-> s1]

\* the PanelState and the index after the call
getState(s, det, activeTabId, allTabs) ==
  LET s1 == setActiveTab(s, activeTabId)
      inStore == SelectSeq(s1.pinnedIds, LAMBDA id : id \in DOMAIN s1.byId)
      pinned == [i \in DOMAIN inStore |-> PinnedItem(s1, det, inStore[i])]
      found == SelectSeq(s1.roots, LAMBDA r : r.id = s1.rootFolderId)
      bookmarks == IF found # <<>>
                   THEN <<[children |-> filterPinned(s1, det, Head(found).children)]
                            @@ Resolve(s1, det, Head(found).id)>>
                   ELSE <<>>
      shown == SelectSeq(allTabs, LAMBDA t : /\ t.id \notin DOMAIN s1.tabToBookmarkId
                                             /\ ~StartsWith(t.url, "chrome://")
                                             /\ ~StartsWith(t.url, "chrome-extension://"))
      openTabs == [i \in DOMAIN shown |-> OpenTab(shown[i], activeTabId)]
  IN  [result |-> [pinned |-> pinned, bookmarks |-> bookmarks, openTabs |-> openTabs,
                   activeTabId |-> activeTabId, pinnedIds |-> s1.pinnedIds,
                   rootFolderId |-> s1.rootFolderId],
       index |-> s1]

(***************************************************************************)
(* The callers' inputs.                                                    *)
(***************************************************************************)
\* The bookmarks' URLs and the tabs' URLs: the two spellings of a.com/x agree
\* only after normalization.
BmUrls == {UrlASlash, UrlB}
TabUrls == {UrlAHash, UrlB}
\* every tab snapshot carries its icon
IconOf(tabId) == "icon"
PinIds == BookmarkIds \cup {FolderId}

SeqsUpTo(S, n) == UNION {[1..k -> S] : k \in 0..n}

\* the orders in which the tree lists (some of) the bookmarks
Orders == {o \in SeqsUpTo(BookmarkIds, MaxBookmarks) : NoDup(o)}

\* a pinned order as storage holds it: written from getPinnedIds(), so
\* without duplicates
PinnedLists == {l \in SeqsUpTo(PinIds, MaxPinned) : NoDup(l)}

TabInfos == {TabInfo(t, u, IconOf(t)) : t \in TabIds, u \in TabUrls}
\* chrome.tabs.query: every tab once
TabLists ==
  {l \in SeqsUpTo(TabInfos, MaxTabs) : \A i, j \in DOMAIN l : i # j => l[i].id # l[j].id}

\* chrome.bookmarks.getTree()[0].children: the Bookmarks Bar and Other
\* Bookmarks; the bookmarks of `order` sit in Other Bookmarks, those of
\* inFolder inside a folder that comes first in it
MakeTree(order, urlOf, inFolder, withFolder) ==
  LET Leaves(ids, parent) == [i \in DOMAIN ids |-> Node(ids[i], urlOf[ids[i]], parent, <<>>)]
      inside == SelectSeq(order, LAMBDA b : b \in inFolder)
      outside == SelectSeq(order, LAMBDA b : b \notin inFolder)
      folder == Node(FolderId, Undef, OtherId, Leaves(inside, FolderId))
  IN  <<Node(BarId, Undef, "0", <<>>),
        Node(OtherId, Undef, "0",
             (IF withFolder \/ inside # <<>> THEN <<folder>> ELSE <<>>) \o Leaves(outside, OtherId))>>

(***************************************************************************)
(* The state machines: one action per public method.                       *)
(***************************************************************************)
Self ==
  [byId |-> byId, tabToBookmarkId |-> tabToBookmarkId, urlToBookmarkIds |-> urlToBookmarkIds,
   pinnedIds |-> pinnedIds, roots |-> roots, rootFolderId |-> rootFolderId]

Becomes(s) ==
  /\ byId' = s.byId
  /\ tabToBookmarkId' = s.tabToBookmarkId
  /\ urlToBookmarkIds' = s.urlToBookmarkIds
  /\ pinnedIds' = s.pinnedIds
  /\ roots' = s.roots
  /\ rootFolderId' = s.rootFolderId

NoCall == [op |-> "none", tree |-> <<>>, tabs |-> <<>>, pinned |-> <<>>, done |-> FALSE]

\* new BookmarkIndex()
NewIndex ==
  /\ byId = EmptyMap /\ tabToBookmarkId = EmptyMap /\ urlToBookmarkIds = EmptyMap
  /\ pinnedIds = <<>> /\ roots = <<>> /\ rootFolderId = ""
  /\ detached = EmptyMap

\* background.ts as loaded: both maps empty, no handler in progress, in a
\* browser with no bookmark and no tab
NoChrome == [bookmarks |-> EmptyMap, tabs |-> EmptyMap, createdFor |-> EmptyMap,
             nextBookmark |-> 1, nextTab |-> 1, stimuli |-> 0,
             strip |-> <<>>, groups |-> EmptyMap, nextGroup |-> 1]
\* notifyTimeout: whether a callback is pending and the time left until it
\* is due; messages: the calls of notifySidePanel so far, how many of them
\* came with no callback pending, the stateUpdated messages sent, and the
\* time since the last call
NoTimeout == [armed |-> FALSE, left |-> 0]
NoMessages == [calls |-> 0, bursts |-> 0, sent |-> 0, sinceCall |-> 0]
WorkerLoaded ==
  /\ pinnedGroupId = Null /\ bookmarkedGroupId = Null /\ bgPinnedIds = <<>>
  /\ notifyTimeout = NoTimeout /\ messages = NoMessages
BackgroundLoaded ==
  /\ bookmarkToTab = <<>> /\ tabToBookmark = EmptyMap
  /\ chrome = NoChrome /\ tasks = <<>>
  /\ WorkerLoaded

Init == NewIndex /\ call = NoCall /\ BackgroundLoaded

\* The trees a running index is rebuilt from: every bookmark present, in
\* Other Bookmarks.
FullOrder == [i \in 1..MaxBookmarks |-> BookmarkNames[i]]
FlatTrees == {MakeTree(FullOrder, urlOf, {}, FALSE) : urlOf \in [BookmarkIds -> BmUrls]}

RebuildWith(trees, tabLists, pinnedLists) ==
  \E tree \in trees, tabs \in tabLists, pinned \in pinnedLists :
    Becomes(rebuild(Self, tree, tabs, pinned, OtherId)) /\ UNCHANGED <<call, detached, backgroundVars>>

\* a rebuild with nothing pinned
Rebuild == RebuildWith(FlatTrees, TabLists, {<<>>})

\* The trees a run of the pinned order is rebuilt from: every bookmark, with
\* or without the folder.  URLs play no part in the pinned order: the
\* bookmarks of these trees share one.
PinnedTrees ==
  {MakeTree(FullOrder, [b \in BookmarkIds |-> UrlB], {}, withFolder) : withFolder \in BOOLEAN}

\* a rebuild with a stored pinned order and no open tab
RebuildPinned == RebuildWith(PinnedTrees, {<<>>}, PinnedLists)

\* the optional tab argument is left out, or is a snapshot of the tab
Associate ==
  \E bookmarkId \in BookmarkIds, tabId \in TabIds, tab \in TabInfos \cup {NoTabInfo} :
    /\ tab # NoTabInfo => tab.id = tabId
    /\ Becomes(associate(Self, bookmarkId, tabId, tab)) /\ UNCHANGED <<call, detached, backgroundVars>>

Dissociate ==
  \E bookmarkId \in BookmarkIds :
    Becomes(dissociate(Self, bookmarkId)) /\ UNCHANGED <<call, detached, backgroundVars>>

DissociateTab ==
  \E tabId \in TabIds :
    Becomes(dissociateTab(Self, tabId)) /\ UNCHANGED <<call, detached, backgroundVars>>

\* the optional tab argument of a call for tabId at url: left out, or the
\* tab's snapshot
Snapshot(tabId, url, withTab) == IF withTab THEN TabInfo(tabId, url, IconOf(tabId)) ELSE NoTabInfo

TryAssociateByUrl ==
  \E tabId \in TabIds, url \in TabUrls, withTab \in BOOLEAN :
    Becomes(tryAssociateByUrl(Self, tabId, url, Snapshot(tabId, url, withTab)).index)
      /\ UNCHANGED <<call, detached, backgroundVars>>

HandleTabNavigation ==
  \E tabId \in TabIds, newUrl \in TabUrls, withTab \in BOOLEAN :
    Becomes(handleTabNavigation(Self, tabId, newUrl, Snapshot(tabId, newUrl, withTab)))
      /\ UNCHANGED <<call, detached, backgroundVars>>

\* the pinned order is kept to MaxPinned ids
Pin ==
  \E bookmarkId \in PinIds :
    /\ Len(pinnedIds) < MaxPinned \/ Includes(pinnedIds, bookmarkId)
    /\ Becomes(pin(Self, bookmarkId)) /\ UNCHANGED <<call, detached, backgroundVars>>

Unpin ==
  \E bookmarkId \in PinIds :
    Becomes(unpin(Self, bookmarkId)) /\ UNCHANGED <<call, detached, backgroundVars>>

ToIndexes == -1..(MaxPinned + 1)

ReorderPinned ==
  \E bookmarkId \in PinIds, toIndex \in ToIndexes :
    Becomes(reorderPinned(Self, bookmarkId, toIndex)) /\ UNCHANGED <<call, detached, backgroundVars>>

CleanupPinned ==
  Becomes(cleanupPinned(Self).index) /\ UNCHANGED <<call, detached, backgroundVars>>

\* chrome.bookmarks.onCreated for a bookmark the store does not hold
AddBookmarkWith(tabLists) ==
  \E id \in BookmarkIds, url \in BmUrls, tabs \in tabLists :
    /\ id \notin DOMAIN byId
    /\ Becomes(addBookmark(Self, Node(id, url, OtherId, <<>>), tabs)) /\ UNCHANGED <<call, detached, backgroundVars>>

AddBookmark == AddBookmarkWith(TabLists)

\* with no tab open
AddBookmarkNoTabs == AddBookmarkWith({<<>>})

\* chrome.bookmarks.onCreated for a folder: a node without url
AddFolder ==
  /\ FolderId \notin DOMAIN byId
  /\ Becomes(addBookmark(Self, Node(FolderId, Undef, OtherId, <<>>), <<>>)) /\ UNCHANGED <<call, detached, backgroundVars>>

RemoveBookmark ==
  \E bookmarkId \in BookmarkIds \cup {FolderId} :
    Becomes(removeBookmark(Self, bookmarkId)) /\ UNCHANGED <<call, detached, backgroundVars>>

UpdateBookmarkUrl ==
  \E bookmarkId \in BookmarkIds, newUrl \in BmUrls, tabs \in TabLists :
    Becomes(updateBookmarkUrl(Self, bookmarkId, newUrl, tabs)) /\ UNCHANGED <<call, detached, backgroundVars>>

\* The index under every sequence of the calls that touch associations.
Next ==
  \/ Rebuild
  \/ Associate
  \/ Dissociate
  \/ DissociateTab
  \/ TryAssociateByUrl
  \/ HandleTabNavigation
  \/ AddBookmark
  \/ RemoveBookmark
  \/ UpdateBookmarkUrl

Spec == Init /\ [][Next]_vars

SetActiveTab ==
  \E tabId \in TabIds \cup {Null} :
    Becomes(setActiveTab(Self, tabId)) /\ UNCHANGED <<call, detached, backgroundVars>>

\* The association calls together with the active-tab marker.
NextActive ==
  \/ Next
  \/ SetActiveTab

SpecActive == Init /\ [][NextActive]_vars

\* The index under every sequence of the calls that touch the pinned order.
NextPinned ==
  \/ RebuildPinned
  \/ Pin
  \/ Unpin
  \/ ReorderPinned
  \/ CleanupPinned
  \/ AddBookmarkNoTabs
  \/ AddFolder
  \/ RemoveBookmark

SpecPinned == Init /\ [][NextPinned]_vars

(***************************************************************************)
(* SpecRebuild: one rebuild of a new index, over every tree, tab list and  *)
(* pinned order of the bounds.                                             *)
(***************************************************************************)
WideBmUrls == {UrlA, UrlASlash, UrlB}
WideTabUrls == {UrlA, UrlAHash, UrlB}

WideTrees ==
  UNION {{MakeTree(order, urlOf, inFolder, withFolder) :
            urlOf \in [Range(order) -> WideBmUrls], inFolder \in SUBSET Range(order),
            withFolder \in BOOLEAN} : order \in Orders}

WideTabInfos == {TabInfo(t, u, IconOf(t)) : t \in TabIds, u \in WideTabUrls}
WideTabLists ==
  {l \in SeqsUpTo(WideTabInfos, MaxTabs) : \A i, j \in DOMAIN l : i # j => l[i].id # l[j].id}

\* the stages of the call examined: its arguments chosen, then applied
RebuildCall(tree, tabs, pinned) ==
  [op |-> "rebuild", tree |-> tree, tabs |-> tabs, pinned |-> pinned, done |-> FALSE]

\* a rebuild with tabs and nothing pinned, or with a pinned order and no tab
InitRebuild ==
  /\ NewIndex /\ BackgroundLoaded
  /\ \E tree \in WideTrees :
       \/ \E tabs \in WideTabLists : call = RebuildCall(tree, tabs, <<>>)
       \/ \E pinned \in PinnedLists : call = RebuildCall(tree, <<>>, pinned)

ApplyRebuild ==
  /\ ~call.done
  /\ Becomes(rebuild(Self, call.tree, call.tabs, call.pinned, OtherId))
  /\ call' = [call EXCEPT !.done = TRUE]
  /\ UNCHANGED <<detached, backgroundVars>>

NextRebuild == ApplyRebuild

SpecRebuild == InitRebuild /\ [][NextRebuild]_vars

(***************************************************************************)
(* SpecPanel: the index together with the objects of the rendering tree,   *)
(* which getState reads.  The other specifications follow the maps, the    *)
(* pinned order and the shape of roots; no method but getState reads the   *)
(* objects that left byId, and there `detached` stays empty.               *)
(***************************************************************************)
\* one bookmark at each URL, the second one beside or inside the folder
PanelUrlOf == [b \in BookmarkIds |-> IF b = BookmarkNames[1] THEN UrlASlash ELSE UrlB]
PanelTrees ==
  {MakeTree(FullOrder, PanelUrlOf, inFolder, TRUE) : inFolder \in {{}, {BookmarkNames[2]}}}
PanelPinned == {l \in SeqsUpTo(PinIds, 1) : TRUE}
\* the tabs are open at their pages
PanelTabs == <<TabInfo(TabNames[1], UrlAHash, IconOf(TabNames[1])),
               TabInfo(TabNames[2], UrlB, IconOf(TabNames[2]))>>

RebuildTree ==
  \E tree \in PanelTrees, tabs \in {<<>>, PanelTabs}, pinned \in PanelPinned :
    /\ Becomes(rebuild(Self, tree, tabs, pinned, OtherId))
    /\ detached' = EmptyMap
    /\ UNCHANGED <<call, backgroundVars>>

AddBookmarkTree ==
  \E id \in BookmarkIds, tabs \in {<<>>, PanelTabs} :
    /\ id \notin DOMAIN byId
    /\ Becomes(addBookmark(Self, Node(id, PanelUrlOf[id], OtherId, <<>>), tabs))
    /\ detached' = DetachedAfter(Self, detached, id)
    /\ UNCHANGED <<call, backgroundVars>>

\* the object leaves byId after `this.unpin(bookmarkId)`
RemoveBookmarkTree ==
  \E bookmarkId \in BookmarkIds :
    /\ Becomes(removeBookmark(Self, bookmarkId))
    /\ detached' = DetachedAfter(unpin(Self, bookmarkId), detached, bookmarkId)
    /\ UNCHANGED <<call, backgroundVars>>

GetState ==
  \E activeTabId \in TabIds \cup {Null} :
    /\ Becomes(getState(Self, detached, activeTabId, PanelTabs).index)
    /\ UNCHANGED <<call, detached, backgroundVars>>

NextPanel ==
  \/ RebuildTree
  \/ AddBookmarkTree
  \/ RemoveBookmarkTree
  \/ GetState
  \/ Pin
  \/ Unpin
  \/ DissociateTab

SpecPanel == Init /\ [][NextPanel]_vars

(***************************************************************************)
(* background.ts: the service worker's two maps under the interleaving of  *)
(* its event listeners and message handlers.  A handler runs from one      *)
(* await to the next without interruption; `tasks` holds the handlers      *)
(* that have been triggered and not finished, each with its position and   *)
(* its local variables.  `chrome` is the browser: its bookmarks and open   *)
(* tabs (id to URL), the ids it hands out next, and for each open tab the  *)
(* bookmark it was created for by activateTab.  An event of the browser    *)
(* puts its listener in `tasks` at "start".  The calls that follow the     *)
(* last write to the maps (notifySidePanel, getFullState, addTabToGroup)   *)
(* read the maps only and are left out, and so is the pinned order.  The   *)
(* return of tryAssociateTab and the code after `await tryAssociateTab`    *)
(* are taken as one step.                                                  *)
(***************************************************************************)
MaxTasks == 3
MaxStimuli == 4

\* Map<string, number | null> in insertion order: a sequence of [id, tabId]
Has(m, id) == \E i \in DOMAIN m : m[i].id = id
Position(m, id) == IF Has(m, id) THEN CHOOSE i \in DOMAIN m : m[i].id = id ELSE 0
Get(m, id) == IF Has(m, id) THEN m[Position(m, id)].tabId ELSE Undef
Put(m, id, tabId) ==
  IF Has(m, id)
  THEN [i \in DOMAIN m |-> IF m[i].id = id THEN [id |-> id, tabId |-> tabId] ELSE m[i]]
  ELSE Append(m, [id |-> id, tabId |-> tabId])
Remove(m, id) == SelectSeq(m, LAMBDA entry : entry.id # id)

Task(kind, pc, bookmarkId, tabId, url) ==
  [kind |-> kind, pc |-> pc, bookmarkId |-> bookmarkId, tabId |-> tabId, url |-> url,
   pos |-> 0, old |-> Undef]

Drop(ts, i) == SubSeq(ts, 1, i - 1) \o SubSeq(ts, i + 1, Len(ts))

\* a Map iterator steps back when an entry at or before it is deleted
AfterRemove(ts, at) ==
  [i \in DOMAIN ts |-> IF ts[i].pc = "fetch" /\ at # 0 /\ at <= ts[i].pos
                       THEN [ts[i] EXCEPT !.pos = @ - 1]
                       ELSE ts[i]]

\* tryAssociateTab: the next entry from `from` on with `tabId === null`, 0 if
\* there is none
NextNull(m, from) ==
  IF \E j \in DOMAIN m : j >= from /\ m[j].tabId = Null
  THEN CHOOSE j \in DOMAIN m : /\ j >= from /\ m[j].tabId = Null
                               /\ \A h \in DOMAIN m : (h >= from /\ m[h].tabId = Null) => j <= h
  ELSE 0

\* chrome.tabs.query({}): the open tabs in the order they were opened
OpenTabsInOrder == SelectSeq(TabNames, LAMBDA t : t \in DOMAIN chrome.tabs)

Room == Len(tasks) < MaxTasks

\* the user and the panel act MaxStimuli times in all
Stimulus == chrome.stimuli < MaxStimuli /\ Room

\* what no listener or handler step of SpecBackground reads or writes: the
\* BookmarkIndex of the side panel, and the group handles and debounce timer
\* that SpecGroups, SpecZones and SpecNotify follow
indexVars == <<byId, tabToBookmarkId, urlToBookmarkIds, pinnedIds, roots, rootFolderId, detached, call,
               workerVars>>

(* ---- the browser and the panel ---------------------------------------- *)
\* the user opens a tab
TabOpened ==
  \E url \in TabUrls :
    /\ chrome.nextTab <= MaxTabs /\ Stimulus
    /\ LET t == TabNames[chrome.nextTab] IN
         /\ chrome' = [chrome EXCEPT !.tabs = MapSet(@, t, url), !.nextTab = @ + 1,
                                     !.stimuli = @ + 1]
         /\ tasks' = Append(tasks, Task("tabs.onCreated", "start", Undef, t, url))
    /\ UNCHANGED <<bookmarkToTab, tabToBookmark>>
    /\ UNCHANGED indexVars

\* the user closes a tab
TabClosed ==
  \E t \in DOMAIN chrome.tabs :
    /\ Stimulus
    /\ chrome' = [chrome EXCEPT !.tabs = MapDelete(@, t), !.createdFor = MapDelete(@, t),
                                !.stimuli = @ + 1]
    /\ tasks' = Append(tasks, Task("tabs.onRemoved", "start", Undef, t, Undef))
    /\ UNCHANGED <<bookmarkToTab, tabToBookmark>>
    /\ UNCHANGED indexVars

\* a tab navigates to another URL
TabNavigated ==
  \E t \in DOMAIN chrome.tabs, url \in TabUrls :
    /\ url # chrome.tabs[t] /\ Stimulus
    /\ chrome' = [chrome EXCEPT !.tabs = MapSet(@, t, url), !.stimuli = @ + 1]
    /\ tasks' = Append(tasks, Task("tabs.onUpdated", "start", Undef, t, url))
    /\ UNCHANGED <<bookmarkToTab, tabToBookmark>>
    /\ UNCHANGED indexVars

\* the user bookmarks a page in the browser
BookmarkCreated ==
  \E url \in BmUrls :
    /\ chrome.nextBookmark <= MaxBookmarks /\ Stimulus
    /\ LET b == BookmarkNames[chrome.nextBookmark] IN
         /\ chrome' = [chrome EXCEPT !.bookmarks = MapSet(@, b, url), !.nextBookmark = @ + 1,
                                     !.stimuli = @ + 1]
         /\ tasks' = Append(tasks, Task("bookmarks.onCreated", "start", b, Undef, url))
    /\ UNCHANGED <<bookmarkToTab, tabToBookmark>>
    /\ UNCHANGED indexVars

BookmarkChanged ==
  \E b \in DOMAIN chrome.bookmarks, url \in BmUrls :
    /\ url # chrome.bookmarks[b] /\ Stimulus
    /\ chrome' = [chrome EXCEPT !.bookmarks = MapSet(@, b, url), !.stimuli = @ + 1]
    /\ tasks' = Append(tasks, Task("bookmarks.onChanged", "start", b, Undef, url))
    /\ UNCHANGED <<bookmarkToTab, tabToBookmark>>
    /\ UNCHANGED indexVars

BookmarkRemoved ==
  \E b \in DOMAIN chrome.bookmarks :
    /\ Stimulus
    /\ chrome' = [chrome EXCEPT !.bookmarks = MapDelete(@, b), !.stimuli = @ + 1]
    /\ tasks' = Append(tasks, Task("bookmarks.onRemoved", "start", b, Undef, Undef))
    /\ UNCHANGED <<bookmarkToTab, tabToBookmark>>
    /\ UNCHANGED indexVars

\* the panel sends activateTab for a bookmark it shows: up to the first await
ActivateTab ==
  \E b \in DOMAIN chrome.bookmarks :
    /\ Stimulus
    /\ tasks' = IF Get(bookmarkToTab, b) \notin {Undef, Null}
                THEN tasks
                ELSE Append(tasks, Task("activateTab", "getBookmark", b, Undef, Undef))
    /\ chrome' = [chrome EXCEPT !.stimuli = @ + 1]
    /\ UNCHANGED <<bookmarkToTab, tabToBookmark>>
    /\ UNCHANGED indexVars

\* the panel sends promoteTab for a tab of its open-tabs list
PromoteTab ==
  \E t \in DOMAIN chrome.tabs :
    /\ t \notin DOMAIN tabToBookmark /\ Stimulus
    /\ tasks' = Append(tasks, Task("promoteTab", "getTab", Undef, t, Undef))
    /\ chrome' = [chrome EXCEPT !.stimuli = @ + 1]
    /\ UNCHANGED <<bookmarkToTab, tabToBookmark>>
    /\ UNCHANGED indexVars

(* ---- the handlers, one step from await to await ------------------------ *)
\* chrome.tabs.onCreated up to the first await of tryAssociateTab
OnTabCreated ==
  \E i \in DOMAIN tasks :
    /\ tasks[i].kind = "tabs.onCreated" /\ tasks[i].pc = "start"
    /\ LET j == NextNull(bookmarkToTab, 1) IN
         tasks' = IF j = 0 THEN Drop(tasks, i)
                  ELSE [tasks EXCEPT ![i].pc = "fetch", ![i].pos = j,
                                     ![i].bookmarkId = bookmarkToTab[j].id]
    /\ UNCHANGED <<bookmarkToTab, tabToBookmark, chrome>>
    /\ UNCHANGED indexVars

\* chrome.tabs.onUpdated with changeInfo.url, up to the first await
OnTabUpdated ==
  \E i \in DOMAIN tasks :
    /\ tasks[i].kind = "tabs.onUpdated" /\ tasks[i].pc = "start"
    /\ LET tabId == tasks[i].tabId
           oldBookmarkId == IF tabId \in DOMAIN tabToBookmark THEN tabToBookmark[tabId] ELSE Undef
           broken == IF oldBookmarkId # Undef THEN Put(bookmarkToTab, oldBookmarkId, Null)
                     ELSE bookmarkToTab
           j == NextNull(broken, 1)
       IN  /\ bookmarkToTab' = broken
           /\ tabToBookmark' = IF oldBookmarkId # Undef THEN MapDelete(tabToBookmark, tabId)
                               ELSE tabToBookmark
           /\ tasks' = IF j = 0 THEN Drop(tasks, i)
                       ELSE [tasks EXCEPT ![i].pc = "fetch", ![i].pos = j,
                                          ![i].bookmarkId = broken[j].id,
                                          ![i].old = oldBookmarkId]
    /\ UNCHANGED chrome
    /\ UNCHANGED indexVars

\* tryAssociateTab after `await chrome.bookmarks.get(bmId)`, up to its next
\* await or its return; on `false` the onUpdated listener restores
TryAssociateTab ==
  \E i \in DOMAIN tasks :
    /\ tasks[i].pc = "fetch"
    /\ LET bmId == tasks[i].bookmarkId
           tabId == tasks[i].tabId
           j == NextNull(bookmarkToTab, tasks[i].pos + 1)
       IN  IF bmId \in DOMAIN chrome.bookmarks /\ urlsMatch(chrome.bookmarks[bmId], tasks[i].url)
           THEN /\ bookmarkToTab' = Put(bookmarkToTab, bmId, tabId)
                /\ tabToBookmark' = MapSet(tabToBookmark, tabId, bmId)
                /\ tasks' = Drop(tasks, i)
           ELSE IF j # 0
           THEN /\ tasks' = [tasks EXCEPT ![i].pos = j, ![i].bookmarkId = bookmarkToTab[j].id]
                /\ UNCHANGED <<bookmarkToTab, tabToBookmark>>
           ELSE IF tasks[i].old # Undef
           THEN /\ bookmarkToTab' = Put(bookmarkToTab, tasks[i].old, tabId)
                /\ tabToBookmark' = MapSet(tabToBookmark, tabId, tasks[i].old)
                /\ tasks' = Drop(tasks, i)
           ELSE /\ tasks' = Drop(tasks, i)
                /\ UNCHANGED <<bookmarkToTab, tabToBookmark>>
    /\ UNCHANGED chrome
    /\ UNCHANGED indexVars

OnTabRemoved ==
  \E i \in DOMAIN tasks :
    /\ tasks[i].kind = "tabs.onRemoved" /\ tasks[i].pc = "start"
    /\ LET tabId == tasks[i].tabId IN
         IF tabId \in DOMAIN tabToBookmark
         THEN /\ bookmarkToTab' = Put(bookmarkToTab, tabToBookmark[tabId], Null)
              /\ tabToBookmark' = MapDelete(tabToBookmark, tabId)
         ELSE UNCHANGED <<bookmarkToTab, tabToBookmark>>
    /\ tasks' = Drop(tasks, i)
    /\ UNCHANGED chrome
    /\ UNCHANGED indexVars

\* chrome.bookmarks.onCreated up to `await chrome.tabs.query({})`
OnBookmarkCreated ==
  \E i \in DOMAIN tasks :
    /\ tasks[i].kind = "bookmarks.onCreated" /\ tasks[i].pc = "start"
    /\ IF Has(bookmarkToTab, tasks[i].bookmarkId)
       THEN tasks' = Drop(tasks, i) /\ UNCHANGED bookmarkToTab
       ELSE /\ bookmarkToTab' = Put(bookmarkToTab, tasks[i].bookmarkId, Null)
            /\ tasks' = [tasks EXCEPT ![i].pc = "query"]
    /\ UNCHANGED <<tabToBookmark, chrome>>
    /\ UNCHANGED indexVars

\* chrome.bookmarks.onChanged with changeInfo.url, up to the await
OnBookmarkChanged ==
  \E i \in DOMAIN tasks :
    /\ tasks[i].kind = "bookmarks.onChanged" /\ tasks[i].pc = "start"
    /\ LET oldTabId == Get(bookmarkToTab, tasks[i].bookmarkId) IN
         /\ tabToBookmark' = IF oldTabId \notin {Null, Undef} THEN MapDelete(tabToBookmark, oldTabId)
                             ELSE tabToBookmark
         /\ bookmarkToTab' = Put(bookmarkToTab, tasks[i].bookmarkId, Null)
    /\ tasks' = [tasks EXCEPT ![i].pc = "query"]
    /\ UNCHANGED chrome
    /\ UNCHANGED indexVars

\* both listeners after `await chrome.tabs.query({})`
AfterTabsQuery ==
  \E i \in DOMAIN tasks :
    /\ tasks[i].pc = "query"
    /\ LET matching == SelectSeq(OpenTabsInOrder, LAMBDA t : urlsMatch(chrome.tabs[t], tasks[i].url))
       IN  IF matching # <<>> /\ Head(matching) \notin DOMAIN tabToBookmark
           THEN /\ bookmarkToTab' = Put(bookmarkToTab, tasks[i].bookmarkId, Head(matching))
                /\ tabToBookmark' = MapSet(tabToBookmark, Head(matching), tasks[i].bookmarkId)
           ELSE UNCHANGED <<bookmarkToTab, tabToBookmark>>
    /\ tasks' = Drop(tasks, i)
    /\ UNCHANGED chrome
    /\ UNCHANGED indexVars

OnBookmarkRemoved ==
  \E i \in DOMAIN tasks :
    /\ tasks[i].kind = "bookmarks.onRemoved" /\ tasks[i].pc = "start"
    /\ LET id == tasks[i].bookmarkId
           tabId == Get(bookmarkToTab, id)
       IN  /\ bookmarkToTab' = IF tabId # Undef THEN Remove(bookmarkToTab, id) ELSE bookmarkToTab
           /\ tabToBookmark' = IF tabId \notin {Undef, Null} THEN MapDelete(tabToBookmark, tabId)
                               ELSE tabToBookmark
           /\ tasks' = AfterRemove(Drop(tasks, i), Position(bookmarkToTab, id))
    /\ UNCHANGED chrome
    /\ UNCHANGED indexVars

\* activateTab after `await chrome.bookmarks.get(bookmarkId)`: the tab is
\* created, and the browser announces it
ActivateTabCreate ==
  \E i \in DOMAIN tasks :
    /\ tasks[i].kind = "activateTab" /\ tasks[i].pc = "getBookmark"
    /\ LET b == tasks[i].bookmarkId IN
         IF b \notin DOMAIN chrome.bookmarks
         THEN tasks' = Drop(tasks, i) /\ UNCHANGED chrome
         ELSE /\ chrome.nextTab <= MaxTabs /\ Room
              /\ LET t == TabNames[chrome.nextTab] IN
                   /\ chrome' = [chrome EXCEPT !.tabs = MapSet(@, t, chrome.bookmarks[b]),
                                               !.createdFor = MapSet(@, t, b),
                                               !.nextTab = @ + 1]
                   /\ tasks' = Append([tasks EXCEPT ![i].pc = "created", ![i].tabId = t],
                                      Task("tabs.onCreated", "start", Undef, t, chrome.bookmarks[b]))
    /\ UNCHANGED <<bookmarkToTab, tabToBookmark>>
    /\ UNCHANGED indexVars

\* promoteTab after `await chrome.tabs.get(tabId)`: the bookmark is created,
\* and the browser announces it
PromoteTabCreate ==
  \E i \in DOMAIN tasks :
    /\ tasks[i].kind = "promoteTab" /\ tasks[i].pc = "getTab"
    /\ LET t == tasks[i].tabId IN
         IF t \notin DOMAIN chrome.tabs
         THEN tasks' = Drop(tasks, i) /\ UNCHANGED chrome
         ELSE /\ chrome.nextBookmark <= MaxBookmarks /\ Room
              /\ LET b == BookmarkNames[chrome.nextBookmark] IN
                   /\ chrome' = [chrome EXCEPT !.bookmarks = MapSet(@, b, chrome.tabs[t]),
                                               !.nextBookmark = @ + 1]
                   /\ tasks' = Append([tasks EXCEPT ![i].pc = "created", ![i].bookmarkId = b],
                                      Task("bookmarks.onCreated", "start", b, Undef, chrome.tabs[t]))
    /\ UNCHANGED <<bookmarkToTab, tabToBookmark>>
    /\ UNCHANGED indexVars

\* activateTab after `await chrome.tabs.create`, promoteTab after
\* `await chrome.bookmarks.create`: both maps are written
AfterCreate ==
  \E i \in DOMAIN tasks :
    /\ tasks[i].pc = "created"
    /\ bookmarkToTab' = Put(bookmarkToTab, tasks[i].bookmarkId, tasks[i].tabId)
    /\ tabToBookmark' = MapSet(tabToBookmark, tasks[i].tabId, tasks[i].bookmarkId)
    /\ tasks' = Drop(tasks, i)
    /\ UNCHANGED chrome
    /\ UNCHANGED indexVars

NextBackground ==
  \/ TabOpened
  \/ TabClosed
  \/ TabNavigated
  \/ BookmarkCreated
  \/ BookmarkChanged
  \/ BookmarkRemoved
  \/ ActivateTab
  \/ PromoteTab
  \/ OnTabCreated
  \/ OnTabUpdated
  \/ TryAssociateTab
  \/ OnTabRemoved
  \/ OnBookmarkCreated
  \/ OnBookmarkChanged
  \/ AfterTabsQuery
  \/ OnBookmarkRemoved
  \/ ActivateTabCreate
  \/ PromoteTabCreate
  \/ AfterCreate

SpecBackground == Init /\ [][NextBackground]_vars

(***************************************************************************)
(* Tab groups (src/lib/grouping.ts).                                       *)
(*                                                                         *)
(* The browser's side: chrome.strip is the tab strip of the window, left   *)
(* to right, each tab with the id of its group (NoGroup is -1);            *)
(* chrome.groups holds title, colour and collapsed state of every group.   *)
(* A group's tabs are adjacent in the strip, a group that loses its last   *)
(* tab is removed, and group ids are never used again.  A call of the      *)
(* chrome API returns ok = FALSE where the browser rejects the promise.    *)
(* chrome.tabGroups.move rejects an index that lies inside another group.  *)
(*                                                                         *)
(* The module's side: the handles pinnedGroupId and bookmarkedGroupId.     *)
(* Every function of grouping.ts is one step: an operator from the record  *)
(* Grouping to the record after the call.  The record also tells what      *)
(* happened in the call: stale (chrome.tabGroups.get rejected the          *)
(* remembered handle), failed (another call of the API was rejected),      *)
(* created (chrome.tabs.group made a new group) and raised (a rejection    *)
(* left the function).                                                     *)
(***************************************************************************)
MaxGroups == 3
MaxGroupTabs == 3

GroupNames == <<"g1", "g2", "g3", "g4", "g5", "g6">>
GroupIds == {GroupNames[i] : i \in 1..MaxGroups}
\* the tabs of the window, closed ones included
GroupTabIds == {TabNames[i] : i \in 1..MaxGroupTabs}
NoGroup == "-1"

PinnedLabel == "Pinned"
BookmarksLabel == "Bookmarks"
Labels == {PinnedLabel, BookmarksLabel}
Zones == {"pinned", "bookmarked"}
LabelOf(zone) == IF zone = "pinned" THEN PinnedLabel ELSE BookmarksLabel
ColorOf(zone) == IF zone = "pinned" THEN "blue" ELSE "grey"

IsOpen(c, tabId) == \E i \in DOMAIN c.strip : c.strip[i].id = tabId
StripIndex(c, tabId) == CHOOSE i \in DOMAIN c.strip : c.strip[i].id = tabId
GroupOf(c, tabId) == IF IsOpen(c, tabId) THEN c.strip[StripIndex(c, tabId)].groupId ELSE NoGroup
Members(c, groupId) == SelectSeq(c.strip, LAMBDA e : e.groupId = groupId)
TabsIn(c, groupId) == {e.id : e \in Range(Members(c, groupId))}

\* the index of the last tab of a group in a strip, 0 if it has none
LastOf(strip, groupId) ==
  IF \E i \in DOMAIN strip : strip[i].groupId = groupId
  THEN CHOOSE i \in DOMAIN strip : /\ strip[i].groupId = groupId
                                   /\ \A j \in DOMAIN strip : strip[j].groupId = groupId => j <= i
  ELSE 0

\* the browser removes the groups that have no tab left
Sweep(c) ==
  [c EXCEPT !.groups = [g \in {x \in DOMAIN c.groups : Members(c, x) # <<>>} |-> c.groups[g]]]

\* a tab taken out of its group comes to stand right of the group
Detach(c, tabId) ==
  LET at == StripIndex(c, tabId)
      old == c.strip[at].groupId
      rest == SelectSeq(c.strip, LAMBDA e : e.id # tabId)
      after == IF old # NoGroup /\ LastOf(rest, old) # 0 THEN LastOf(rest, old) ELSE at - 1
  IN  [c EXCEPT !.strip = SpliceIn(rest, after, [id |-> tabId, groupId |-> NoGroup])]

\* chrome.tabGroups.get(groupId)
tabGroupsGet(c, groupId) == [ok |-> groupId \in DOMAIN c.groups]

\* chrome.tabGroups.query({ title }): the groups with the title, by id
tabGroupsQuery(c, title) ==
  SelectSeq(GroupNames, LAMBDA g : g \in DOMAIN c.groups /\ c.groups[g].title = title)

\* chrome.tabs.get(tabId)
tabsGet(c, tabId) == [ok |-> IsOpen(c, tabId), groupId |-> GroupOf(c, tabId)]

\* chrome.tabs.group({ tabIds: [tabId], groupId }): the tab joins the group
\* at its right end
tabsGroupInto(c, tabId, groupId) ==
  IF ~IsOpen(c, tabId) \/ groupId \notin DOMAIN c.groups
  THEN [ok |-> FALSE, chrome |-> c, groupId |-> groupId]
  ELSE IF GroupOf(c, tabId) = groupId
  THEN [ok |-> TRUE, chrome |-> c, groupId |-> groupId]
  ELSE LET rest == SelectSeq(c.strip, LAMBDA e : e.id # tabId)
           joined == SpliceIn(rest, LastOf(rest, groupId), [id |-> tabId, groupId |-> groupId])
       IN  [ok |-> TRUE, chrome |-> Sweep([c EXCEPT !.strip = joined]), groupId |-> groupId]

\* chrome.tabs.group({ tabIds: [tabId] }): a new group of this one tab,
\* with no title yet
tabsGroupNew(c, tabId) ==
  IF ~IsOpen(c, tabId)
  THEN [ok |-> FALSE, chrome |-> c, groupId |-> NoGroup]
  ELSE LET groupId == GroupNames[c.nextGroup]
           out == Detach(c, tabId)
           at == StripIndex(out, tabId)
       IN  [ok |-> TRUE,
            chrome |-> Sweep([out EXCEPT !.strip[at].groupId = groupId,
                                         !.groups = MapSet(@, groupId, [title |-> "", color |-> "grey",
                                                                        collapsed |-> FALSE]),
                                         !.nextGroup = @ + 1]),
            groupId |-> groupId]

\* chrome.tabs.ungroup(tabId)
tabsUngroup(c, tabId) ==
  IF ~IsOpen(c, tabId) THEN [ok |-> FALSE, chrome |-> c]
  ELSE [ok |-> TRUE, chrome |-> Sweep(Detach(c, tabId))]

\* chrome.tabGroups.update(groupId, props)
tabGroupsUpdate(c, groupId, props) ==
  IF groupId \notin DOMAIN c.groups THEN [ok |-> FALSE, chrome |-> c]
  ELSE [ok |-> TRUE, chrome |-> [c EXCEPT !.groups[groupId] = props]]

\* chrome.tabGroups.move(groupId, { index }): the group's tabs come to
\* stand from `index` on
tabGroupsMove(c, groupId, index) ==
  LET at == index + 1
      target == IF at \in DOMAIN c.strip THEN c.strip[at].groupId ELSE NoGroup
      adjacent == IF at - 1 \in DOMAIN c.strip THEN c.strip[at - 1].groupId ELSE NoGroup
      rest == SelectSeq(c.strip, LAMBDA e : e.groupId # groupId)
      to == Min(index, Len(rest))
  IN  IF groupId \notin DOMAIN c.groups \/ (target # NoGroup /\ target = adjacent /\ target # groupId)
      THEN [ok |-> FALSE, chrome |-> c]
      ELSE [ok |-> TRUE,
            chrome |-> [c EXCEPT !.strip = SubSeq(rest, 1, to) \o Members(c, groupId)
                                             \o SubSeq(rest, to + 1, Len(rest))]]

\* chrome.tabs.group({ tabIds, groupId }) with the tabs of one group
RECURSIVE GroupAll(_, _, _)
GroupAll(c, tabIds, groupId) ==
  IF tabIds = <<>> THEN [ok |-> TRUE, chrome |-> c]
  ELSE LET first == tabsGroupInto(c, Head(tabIds), groupId) IN
       IF first.ok THEN GroupAll(first.chrome, Tail(tabIds), groupId)
       ELSE [ok |-> FALSE, chrome |-> c]

\* the duplicates left as they are
consolidateGroups_leaveDuplicates(c, groups, keepGroupId, i) == c

RECURSIVE consolidateGroups(_, _, _, _)
consolidateGroups(c, groups, keepGroupId, i) ==
  IF i > Len(groups) THEN c
  ELSE LET tabs == [k \in DOMAIN Members(c, groups[i]) |-> Members(c, groups[i])[k].id]
           moved == GroupAll(c, tabs, keepGroupId)
       IN  consolidateGroups(IF moved.ok THEN moved.chrome ELSE c, groups, keepGroupId, i + 1)

\* the module and the browser before a call
Grouping ==
  [chrome |-> chrome, pinnedGroupId |-> pinnedGroupId, bookmarkedGroupId |-> bookmarkedGroupId,
   stale |-> FALSE, failed |-> FALSE, created |-> FALSE, raised |-> FALSE]

HandleOf(w, zone) == IF zone = "pinned" THEN w.pinnedGroupId ELSE w.bookmarkedGroupId
SetHandle(w, zone, groupId) ==
  IF zone = "pinned" THEN [w EXCEPT !.pinnedGroupId = groupId]
  ELSE [w EXCEPT !.bookmarkedGroupId = groupId]

recoverGroupIds(w) ==
  LET pinnedGroups == tabGroupsQuery(w.chrome, PinnedLabel)
      w1 == IF pinnedGroups # <<>>
            THEN [w EXCEPT !.pinnedGroupId = pinnedGroups[1],
                           !.chrome = consolidateGroups(@, pinnedGroups, pinnedGroups[1], 2)]
            ELSE w
      bookmarkedGroups == tabGroupsQuery(w1.chrome, BookmarksLabel)
  IN  IF bookmarkedGroups # <<>>
      THEN [w1 EXCEPT !.bookmarkedGroupId = bookmarkedGroups[1],
                      !.chrome = consolidateGroups(@, bookmarkedGroups, bookmarkedGroups[1], 2)]
      ELSE w1

ensureGroup(c, label, currentGroupId) ==
  IF currentGroupId # Null /\ tabGroupsGet(c, currentGroupId).ok
  THEN [groupId |-> currentGroupId, chrome |-> c, stale |-> FALSE]
  ELSE LET groups == tabGroupsQuery(c, label) IN
       IF groups # <<>>
       THEN [groupId |-> groups[1], chrome |-> consolidateGroups(c, groups, groups[1], 2),
             stale |-> currentGroupId # Null]
       ELSE [groupId |-> NoGroup, chrome |-> c, stale |-> currentGroupId # Null]

\* the bookmarks group moved to the left end as well
positionGroups_bothLeftmost(w) ==
  LET first == IF w.pinnedGroupId # Null THEN tabGroupsMove(w.chrome, w.pinnedGroupId, 0)
               ELSE [ok |-> TRUE, chrome |-> w.chrome]
      w1 == IF first.ok THEN [w EXCEPT !.chrome = first.chrome]
            ELSE [w EXCEPT !.pinnedGroupId = Null, !.failed = TRUE]
      second == IF w1.bookmarkedGroupId # Null
                THEN tabGroupsMove(w1.chrome, w1.bookmarkedGroupId, 0)
                ELSE [ok |-> TRUE, chrome |-> w1.chrome]
  IN  IF second.ok THEN [w1 EXCEPT !.chrome = second.chrome]
      ELSE [w1 EXCEPT !.bookmarkedGroupId = Null, !.failed = TRUE]

positionGroups(w) ==
  LET first == IF w.pinnedGroupId # Null THEN tabGroupsMove(w.chrome, w.pinnedGroupId, 0)
               ELSE [ok |-> TRUE, chrome |-> w.chrome]
      w1 == IF first.ok THEN [w EXCEPT !.chrome = first.chrome]
            ELSE [w EXCEPT !.pinnedGroupId = Null, !.failed = TRUE]
      targetIndex == IF w1.pinnedGroupId # Null THEN 1 ELSE 0
      second == IF w1.bookmarkedGroupId # Null
                THEN tabGroupsMove(w1.chrome, w1.bookmarkedGroupId, targetIndex)
                ELSE [ok |-> TRUE, chrome |-> w1.chrome]
  IN  IF second.ok THEN [w1 EXCEPT !.chrome = second.chrome]
      ELSE [w1 EXCEPT !.bookmarkedGroupId = Null, !.failed = TRUE]

\* the title, colour and collapsed state applied to a new group only
addTabToGroup_dressNewOnly(w, tabId, zone) ==
  LET found == ensureGroup(w.chrome, LabelOf(zone), HandleOf(w, zone))
      w1 == [w EXCEPT !.chrome = found.chrome, !.stale = found.stale]
      grouped == IF found.groupId = NoGroup THEN tabsGroupNew(w1.chrome, tabId)
                 ELSE tabsGroupInto(w1.chrome, tabId, found.groupId)
      updated == IF found.groupId = NoGroup
                 THEN tabGroupsUpdate(grouped.chrome, grouped.groupId,
                                      [title |-> LabelOf(zone), color |-> ColorOf(zone), collapsed |-> FALSE])
                 ELSE [ok |-> TRUE, chrome |-> grouped.chrome]
  IN  IF ~grouped.ok THEN [w1 EXCEPT !.failed = TRUE]
      ELSE positionGroups([SetHandle(w1, zone, grouped.groupId)
                             EXCEPT !.chrome = updated.chrome, !.created = found.groupId = NoGroup])

addTabToGroup(w, tabId, zone) ==
  LET found == ensureGroup(w.chrome, LabelOf(zone), HandleOf(w, zone))
      w1 == [w EXCEPT !.chrome = found.chrome, !.stale = found.stale]
      grouped == IF found.groupId = NoGroup THEN tabsGroupNew(w1.chrome, tabId)
                 ELSE tabsGroupInto(w1.chrome, tabId, found.groupId)
      updated == tabGroupsUpdate(grouped.chrome, grouped.groupId,
                                 [title |-> LabelOf(zone), color |-> ColorOf(zone), collapsed |-> FALSE])
  IN  IF ~grouped.ok THEN [w1 EXCEPT !.failed = TRUE]
      ELSE IF ~updated.ok
      THEN [w1 EXCEPT !.chrome = grouped.chrome, !.failed = TRUE, !.created = found.groupId = NoGroup]
      ELSE positionGroups([SetHandle(w1, zone, grouped.groupId)
                             EXCEPT !.chrome = updated.chrome, !.created = found.groupId = NoGroup])

ungroupIfNotManaged(w, tabId, isBookmarked) ==
  IF isBookmarked THEN w
  ELSE LET tab == tabsGet(w.chrome, tabId) IN
       IF ~tab.ok THEN [w EXCEPT !.failed = TRUE]
       ELSE IF tab.groupId = NoGroup THEN w
       ELSE IF tab.groupId = w.pinnedGroupId \/ tab.groupId = w.bookmarkedGroupId
       THEN [w EXCEPT !.chrome = tabsUngroup(@, tabId).chrome]
       ELSE w

ungroupTab(w, tabId) ==
  LET out == tabsUngroup(w.chrome, tabId) IN
  positionGroups(IF out.ok THEN [w EXCEPT !.chrome = out.chrome] ELSE [w EXCEPT !.failed = TRUE])

(***************************************************************************)
(* SpecGroups: the functions of grouping.ts, called in any order with any  *)
(* tab, in a window whose user opens and closes tabs, makes and dissolves  *)
(* groups and collapses them, and whose service worker may be restarted    *)
(* (the handles are null again).                                           *)
(***************************************************************************)
groupFrame == <<byId, tabToBookmarkId, urlToBookmarkIds, pinnedIds, roots, rootFolderId, detached, call,
                bookmarkToTab, tabToBookmark, tasks, bgPinnedIds, notifyTimeout, messages>>

GroupingBecomes(w) ==
  /\ chrome' = w.chrome
  /\ pinnedGroupId' = w.pinnedGroupId
  /\ bookmarkedGroupId' = w.bookmarkedGroupId

\* a new tab stands at the right end, or right of the tab it was opened
\* from and in that tab's group
OpenedNextTo(c, tabId, url, opener) ==
  LET entry == [id |-> tabId, groupId |-> IF opener = Null THEN NoGroup ELSE GroupOf(c, opener)]
      at == IF opener = Null THEN Len(c.strip) ELSE StripIndex(c, opener)
  IN  [c EXCEPT !.strip = SpliceIn(@, at, entry), !.tabs = MapSet(@, tabId, url),
                !.nextTab = @ + 1, !.stimuli = @ + 1]

Closed(c, tabId) ==
  Sweep([c EXCEPT !.strip = SelectSeq(@, LAMBDA e : e.id # tabId), !.tabs = MapDelete(@, tabId),
                  !.createdFor = MapDelete(@, tabId), !.stimuli = @ + 1])

UserOpensTab ==
  \E opener \in {e.id : e \in Range(chrome.strip)} \cup {Null} :
    /\ chrome.nextTab <= MaxGroupTabs /\ Stimulus
    /\ chrome' = OpenedNextTo(chrome, TabNames[chrome.nextTab], UrlB, opener)
    /\ UNCHANGED <<pinnedGroupId, bookmarkedGroupId, groupFrame>>

UserClosesTab ==
  \E e \in Range(chrome.strip) :
    /\ Stimulus
    /\ chrome' = Closed(chrome, e.id)
    /\ UNCHANGED <<pinnedGroupId, bookmarkedGroupId, groupFrame>>

\* the user makes a group of one tab and gives it one of the two titles
UserGroups ==
  \E e \in Range(chrome.strip), title \in Labels :
    /\ chrome.nextGroup <= MaxGroups /\ Stimulus
    /\ LET made == tabsGroupNew(chrome, e.id) IN
         chrome' = [made.chrome EXCEPT !.groups[made.groupId].title = title, !.stimuli = @ + 1]
    /\ UNCHANGED <<pinnedGroupId, bookmarkedGroupId, groupFrame>>

\* the user dissolves a group: its tabs stay where they are
UserUngroups ==
  \E g \in DOMAIN chrome.groups :
    /\ Stimulus
    /\ chrome' = Sweep([chrome EXCEPT
                          !.strip = [i \in DOMAIN @ |-> IF @[i].groupId = g
                                                        THEN [@[i] EXCEPT !.groupId = NoGroup]
                                                        ELSE @[i]],
                          !.stimuli = @ + 1])
    /\ UNCHANGED <<pinnedGroupId, bookmarkedGroupId, groupFrame>>

UserCollapses ==
  \E g \in DOMAIN chrome.groups :
    /\ ~chrome.groups[g].collapsed /\ Stimulus
    /\ chrome' = [chrome EXCEPT !.groups[g].collapsed = TRUE, !.stimuli = @ + 1]
    /\ UNCHANGED <<pinnedGroupId, bookmarkedGroupId, groupFrame>>

\* the service worker is stopped and loaded again
WorkerRestarts ==
  /\ pinnedGroupId # Null \/ bookmarkedGroupId # Null
  /\ pinnedGroupId' = Null /\ bookmarkedGroupId' = Null
  /\ UNCHANGED <<chrome, groupFrame>>

RecoverGroupIds ==
  /\ GroupingBecomes(recoverGroupIds(Grouping))
  /\ UNCHANGED groupFrame

AddTabToGroup ==
  \E tabId \in GroupTabIds, zone \in Zones :
    /\ chrome.nextGroup <= MaxGroups
    /\ GroupingBecomes(addTabToGroup(Grouping, tabId, zone))
    /\ UNCHANGED groupFrame

PositionGroups ==
  /\ GroupingBecomes(positionGroups(Grouping))
  /\ UNCHANGED groupFrame

UngroupIfNotManaged ==
  \E tabId \in GroupTabIds, isBookmarked \in BOOLEAN :
    /\ GroupingBecomes(ungroupIfNotManaged(Grouping, tabId, isBookmarked))
    /\ UNCHANGED groupFrame

UngroupTab ==
  \E tabId \in GroupTabIds :
    /\ GroupingBecomes(ungroupTab(Grouping, tabId))
    /\ UNCHANGED groupFrame

NextGroups ==
  \/ UserOpensTab
  \/ UserClosesTab
  \/ UserGroups
  \/ UserUngroups
  \/ UserCollapses
  \/ WorkerRestarts
  \/ RecoverGroupIds
  \/ AddTabToGroup
  \/ PositionGroups
  \/ UngroupIfNotManaged
  \/ UngroupTab

SpecGroups == Init /\ [][NextGroups]_vars

(***************************************************************************)
(* SpecZones: the listeners and message handlers of background.ts that     *)
(* decide which tab is in which group.  Here each handler runs from start  *)
(* to end without another one in between; the only thing left pending is   *)
(* the 500 ms timer of tabs.onCreated, kept in `tasks`.  background.ts     *)
(* has its own addTabToGroup and positionGroups (88-170); they are those   *)
(* of grouping.ts but for the consolidation of duplicates, and no two      *)
(* groups have the same title in this specification.                       *)
(***************************************************************************)
IsLoaded(tabId) == tabId # Undef /\ tabId # Null

\* tryAssociateTab from its first line to its return
tryAssociateTab(m, t2b, c, tabId, url) ==
  LET fits == {j \in DOMAIN m : /\ m[j].tabId = Null
                                /\ m[j].id \in DOMAIN c.bookmarks
                                /\ urlsMatch(c.bookmarks[m[j].id], url)}
      first == CHOOSE j \in fits : \A k \in fits : j <= k
  IN  IF fits = {} THEN [bookmarkToTab |-> m, tabToBookmark |-> t2b, matched |-> FALSE]
      ELSE [bookmarkToTab |-> Put(m, m[first].id, tabId),
            tabToBookmark |-> MapSet(t2b, tabId, m[first].id),
            matched |-> TRUE]

\* ungroupIfNotBookmarked(fresh), after chrome.tabs.get(tabId)
ungroupIfNotBookmarked(w, t2b, tabId) ==
  LET fresh == tabsGet(w.chrome, tabId) IN
  IF ~fresh.ok \/ fresh.groupId = NoGroup \/ tabId \in DOMAIN t2b THEN w
  ELSE IF fresh.groupId = w.pinnedGroupId \/ fresh.groupId = w.bookmarkedGroupId
  THEN [w EXCEPT !.chrome = tabsUngroup(@, tabId).chrome]
  ELSE w

ZoneOf(bookmarkId, pinned) == IF Includes(pinned, bookmarkId) THEN "pinned" ELSE "bookmarked"

zoneFrame == <<byId, tabToBookmarkId, urlToBookmarkIds, pinnedIds, roots, rootFolderId, detached, call,
               notifyTimeout, messages>>

Counted(c) == [c EXCEPT !.stimuli = @ + 1]

\* the user opens a tab: chrome.tabs.onCreated
ZoneTabOpened ==
  \E url \in TabUrls, opener \in {e.id : e \in Range(chrome.strip)} \cup {Null} :
    /\ chrome.nextTab <= MaxTabs /\ Stimulus
    /\ LET tabId == TabNames[chrome.nextTab]
           opened == OpenedNextTo(chrome, tabId, url, opener)
           found == tryAssociateTab(bookmarkToTab, tabToBookmark, opened, tabId, url)
       IN  /\ chrome' = opened
           /\ bookmarkToTab' = found.bookmarkToTab
           /\ tabToBookmark' = found.tabToBookmark
           /\ tasks' = Append(tasks, Task("ungroupTimer", "wait", Undef, tabId, Undef))
    /\ UNCHANGED <<pinnedGroupId, bookmarkedGroupId, bgPinnedIds, zoneFrame>>

\* the callback of setTimeout(..., 500) in chrome.tabs.onCreated
UngroupTimer ==
  \E i \in DOMAIN tasks :
    /\ tasks[i].kind = "ungroupTimer"
    /\ GroupingBecomes(ungroupIfNotBookmarked(Grouping, tabToBookmark, tasks[i].tabId))
    /\ tasks' = Drop(tasks, i)
    /\ UNCHANGED <<bookmarkToTab, tabToBookmark, bgPinnedIds, zoneFrame>>

\* the user closes a tab: chrome.tabs.onRemoved
ZoneTabClosed ==
  \E e \in Range(chrome.strip) :
    /\ Stimulus
    /\ chrome' = Closed(chrome, e.id)
    /\ IF e.id \in DOMAIN tabToBookmark
       THEN /\ bookmarkToTab' = Put(bookmarkToTab, tabToBookmark[e.id], Null)
            /\ tabToBookmark' = MapDelete(tabToBookmark, e.id)
       ELSE UNCHANGED <<bookmarkToTab, tabToBookmark>>
    /\ UNCHANGED <<pinnedGroupId, bookmarkedGroupId, bgPinnedIds, tasks, zoneFrame>>

\* a tab navigates: chrome.tabs.onUpdated with changeInfo.url
ZoneTabNavigated ==
  \E e \in Range(chrome.strip), url \in TabUrls :
    /\ url # chrome.tabs[e.id] /\ Stimulus
    /\ LET tabId == e.id
           navigated == [Counted(chrome) EXCEPT !.tabs[tabId] = url]
           oldBookmarkId == IF tabId \in DOMAIN tabToBookmark THEN tabToBookmark[tabId] ELSE Undef
           found == IF oldBookmarkId # Undef
                    THEN tryAssociateTab(Put(bookmarkToTab, oldBookmarkId, Null),
                                         MapDelete(tabToBookmark, tabId), navigated, tabId, url)
                    ELSE tryAssociateTab(bookmarkToTab, tabToBookmark, navigated, tabId, url)
       IN  /\ chrome' = navigated
           /\ bookmarkToTab' = IF oldBookmarkId # Undef /\ ~found.matched THEN bookmarkToTab
                               ELSE found.bookmarkToTab
           /\ tabToBookmark' = IF oldBookmarkId # Undef /\ ~found.matched THEN tabToBookmark
                               ELSE found.tabToBookmark
    /\ UNCHANGED <<pinnedGroupId, bookmarkedGroupId, bgPinnedIds, tasks, zoneFrame>>

\* promoteTab: the bookmark is created, bookmarks.onCreated sets its entry
\* to null and asks for the tabs, promoteTab writes both maps and groups the
\* tab, and the listener then takes the first tab at the URL
ZonePromoteTab ==
  \E e \in Range(chrome.strip), pinned \in BOOLEAN :
    /\ e.id \notin DOMAIN tabToBookmark
    /\ chrome.nextBookmark <= MaxBookmarks /\ chrome.nextGroup <= MaxGroups /\ Stimulus
    /\ LET tabId == e.id
           id == BookmarkNames[chrome.nextBookmark]
           url == chrome.tabs[tabId]
           created == [Counted(chrome) EXCEPT !.bookmarks = MapSet(@, id, url), !.nextBookmark = @ + 1]
           grouped == addTabToGroup([Grouping EXCEPT !.chrome = created], tabId,
                                    IF pinned THEN "pinned" ELSE "bookmarked")
           t2b == MapSet(tabToBookmark, tabId, id)
           matching == SelectSeq(grouped.chrome.strip,
                                 LAMBDA x : urlsMatch(grouped.chrome.tabs[x.id], url))
           match == Head(matching).id
       IN  /\ GroupingBecomes(grouped)
           /\ bgPinnedIds' = IF pinned THEN Append(bgPinnedIds, id) ELSE bgPinnedIds
           /\ IF match \notin DOMAIN t2b
              THEN /\ bookmarkToTab' = Put(bookmarkToTab, id, match)
                   /\ tabToBookmark' = MapSet(t2b, match, id)
              ELSE /\ bookmarkToTab' = Put(bookmarkToTab, id, tabId)
                   /\ tabToBookmark' = t2b
    /\ UNCHANGED <<tasks, zoneFrame>>

\* activateTab for a bookmark without a tab: the tab is created at the right
\* end, tabs.onCreated runs for it, and activateTab writes both maps and
\* groups the tab
ZoneActivateTab ==
  \E bookmarkId \in DOMAIN chrome.bookmarks :
    /\ ~IsLoaded(Get(bookmarkToTab, bookmarkId))
    /\ chrome.nextTab <= MaxTabs /\ chrome.nextGroup <= MaxGroups /\ Stimulus
    /\ LET tabId == TabNames[chrome.nextTab]
           url == chrome.bookmarks[bookmarkId]
           opened == OpenedNextTo(chrome, tabId, url, Null)
           found == tryAssociateTab(bookmarkToTab, tabToBookmark, opened, tabId, url)
           grouped == addTabToGroup([Grouping EXCEPT !.chrome = opened], tabId,
                                    ZoneOf(bookmarkId, bgPinnedIds))
       IN  /\ GroupingBecomes(grouped)
           /\ bookmarkToTab' = Put(found.bookmarkToTab, bookmarkId, tabId)
           /\ tabToBookmark' = MapSet(found.tabToBookmark, tabId, bookmarkId)
           /\ tasks' = Append(tasks, Task("ungroupTimer", "wait", Undef, tabId, Undef))
    /\ Room
    /\ UNCHANGED <<bgPinnedIds, zoneFrame>>

PinBookmark ==
  \E bookmarkId \in DOMAIN chrome.bookmarks :
    /\ ~Includes(bgPinnedIds, bookmarkId)
    /\ chrome.nextGroup <= MaxGroups /\ Stimulus
    /\ bgPinnedIds' = Append(bgPinnedIds, bookmarkId)
    /\ LET tabId == Get(bookmarkToTab, bookmarkId)
           counted == [Grouping EXCEPT !.chrome = Counted(chrome)]
       IN  GroupingBecomes(IF IsLoaded(tabId) THEN addTabToGroup(counted, tabId, "pinned") ELSE counted)
    /\ UNCHANGED <<bookmarkToTab, tabToBookmark, tasks, zoneFrame>>

UnpinBookmark ==
  \E bookmarkId \in DOMAIN chrome.bookmarks :
    /\ Includes(bgPinnedIds, bookmarkId)
    /\ chrome.nextGroup <= MaxGroups /\ Stimulus
    /\ bgPinnedIds' = SpliceOut(bgPinnedIds, IndexOf(bgPinnedIds, bookmarkId))
    /\ LET tabId == Get(bookmarkToTab, bookmarkId)
           counted == [Grouping EXCEPT !.chrome = Counted(chrome)]
       IN  GroupingBecomes(IF IsLoaded(tabId) THEN addTabToGroup(counted, tabId, "bookmarked")
                           ELSE counted)
    /\ UNCHANGED <<bookmarkToTab, tabToBookmark, tasks, zoneFrame>>

\* removeBookmark and unbookmarkTab: the latter takes the tab out of its
\* group first
RemovedFromMaps(bookmarkId) ==
  LET tabId == Get(bookmarkToTab, bookmarkId) IN
  /\ bookmarkToTab' = Remove(bookmarkToTab, bookmarkId)
  /\ tabToBookmark' = IF IsLoaded(tabId) THEN MapDelete(tabToBookmark, tabId) ELSE tabToBookmark
  /\ bgPinnedIds' = IF Includes(bgPinnedIds, bookmarkId)
                    THEN SpliceOut(bgPinnedIds, IndexOf(bgPinnedIds, bookmarkId))
                    ELSE bgPinnedIds

ZoneRemoveBookmark ==
  \E bookmarkId \in DOMAIN chrome.bookmarks :
    /\ Stimulus
    /\ RemovedFromMaps(bookmarkId)
    /\ chrome' = [Counted(chrome) EXCEPT !.bookmarks = MapDelete(@, bookmarkId)]
    /\ UNCHANGED <<pinnedGroupId, bookmarkedGroupId, tasks, zoneFrame>>

UnbookmarkTab ==
  \E bookmarkId \in DOMAIN chrome.bookmarks :
    /\ Stimulus
    /\ RemovedFromMaps(bookmarkId)
    /\ LET tabId == Get(bookmarkToTab, bookmarkId)
           removed == [Grouping EXCEPT !.chrome = [Counted(chrome) EXCEPT
                                                     !.bookmarks = MapDelete(@, bookmarkId)]]
       IN  GroupingBecomes(IF IsLoaded(tabId) THEN ungroupTab(removed, tabId) ELSE removed)
    /\ UNCHANGED <<tasks, zoneFrame>>

NextZones ==
  \/ ZoneTabOpened
  \/ UngroupTimer
  \/ ZoneTabClosed
  \/ ZoneTabNavigated
  \/ ZonePromoteTab
  \/ ZoneActivateTab
  \/ PinBookmark
  \/ UnpinBookmark
  \/ ZoneRemoveBookmark
  \/ UnbookmarkTab

SpecZones == Init /\ [][NextZones]_vars

(***************************************************************************)
(* SpecNotify: notifySidePanel (background.ts 671-682) and its timer.      *)
(* Time passes in ticks, Window of them make the 50 ms of setTimeout.  A   *)
(* callback that is due runs before more time passes and before the next   *)
(* call.  SpecNotifyFair adds that time passes and due callbacks run.      *)
(***************************************************************************)
Window == 5
MaxCalls == 6

\* a pending callback is left as it is
notifySidePanel_keepPending(timeout) ==
  IF timeout.armed THEN timeout ELSE [armed |-> TRUE, left |-> Window]

\* clearTimeout, then setTimeout(callback, 50)
notifySidePanel(timeout) == [armed |-> TRUE, left |-> Window]

Due == notifyTimeout.armed /\ notifyTimeout.left = 0

notifyFrame == <<byId, tabToBookmarkId, urlToBookmarkIds, pinnedIds, roots, rootFolderId, detached, call,
                 bookmarkToTab, tabToBookmark, chrome, tasks,
                 pinnedGroupId, bookmarkedGroupId, bgPinnedIds>>

NotifySidePanel ==
  /\ messages.calls < MaxCalls /\ ~Due
  /\ notifyTimeout' = notifySidePanel(notifyTimeout)
  /\ messages' = [messages EXCEPT !.calls = @ + 1,
                                  !.bursts = IF notifyTimeout.armed THEN @ ELSE @ + 1,
                                  !.sinceCall = 0]
  /\ UNCHANGED notifyFrame

Tick ==
  /\ ~Due
  /\ notifyTimeout.armed \/ messages.sinceCall < Window
  /\ notifyTimeout' = IF notifyTimeout.armed THEN [notifyTimeout EXCEPT !.left = @ - 1]
                      ELSE notifyTimeout
  /\ messages' = [messages EXCEPT !.sinceCall = Min(@ + 1, Window)]
  /\ UNCHANGED notifyFrame

\* the callback: chrome.runtime.sendMessage({ type: "stateUpdated" })
SendStateUpdated ==
  /\ Due
  /\ notifyTimeout' = [notifyTimeout EXCEPT !.armed = FALSE]
  /\ messages' = [messages EXCEPT !.sent = @ + 1]
  /\ UNCHANGED notifyFrame

NextNotify ==
  \/ NotifySidePanel
  \/ Tick
  \/ SendStateUpdated

SpecNotify == Init /\ [][NextNotify]_vars
SpecNotifyFair == SpecNotify /\ WF_vars(Tick) /\ WF_vars(SendStateUpdated)(***************************************************************************)
(* SpecWalk: the two walks toward the root, one turn of the loop per step. *)
(* isUnderRoot of src/lib/state.ts (170-186) takes getParentId and         *)
(* maxDepth as arguments; isUnderRoot of background.js (254-268) asks the  *)
(* browser for each node and keeps no depth counter.  `call` holds the     *)
(* arguments (the parent links as a function of the ids, any function,     *)
(* cycles included) and the locals current and depth; lookups counts the   *)
(* parents asked for.  SpecWalkFair adds that a loop keeps running.        *)
(***************************************************************************)
MaxDepth == 2

WalkIds == {"b1", "b2", FolderId, OtherId}
\* the walk of background.js is followed for this many lookups and no further
MaxLookups == MaxDepth + 2
TreeRoot == "0"
ParentMaps == [WalkIds -> WalkIds \cup {Null, TreeRoot}]

WalkCall(op, bookmarkId, rootFolder, getParentId, maxDepth) ==
  [op |-> op, bookmarkId |-> bookmarkId, rootFolderId |-> rootFolder,
   getParentId |-> getParentId, maxDepth |-> maxDepth,
   current |-> bookmarkId, depth |-> 0, lookups |-> 0, done |-> FALSE, result |-> FALSE]

\* one evaluation of the loop condition and, if it holds, of the loop body
isUnderRoot(c) ==
  IF ~(Truthy(c.current) /\ c.depth < c.maxDepth) THEN [c EXCEPT !.done = TRUE, !.result = FALSE]
  ELSE IF c.current = c.rootFolderId THEN [c EXCEPT !.done = TRUE, !.result = TRUE]
  ELSE LET parentId == c.getParentId[c.current] IN
       IF ~Truthy(parentId) \/ parentId = TreeRoot
       THEN [c EXCEPT !.lookups = @ + 1, !.done = TRUE, !.result = FALSE]
       ELSE [c EXCEPT !.lookups = @ + 1, !.current = parentId, !.depth = @ + 1]

\* background.js 254-268: chrome.bookmarks.get rejects for an id the browser
\* does not know (getParentId gives Null) and the catch returns false
isUnderRootAsync(c) ==
  IF ~Truthy(c.rootFolderId) \/ ~Truthy(c.current) THEN [c EXCEPT !.done = TRUE, !.result = FALSE]
  ELSE IF c.current = c.rootFolderId THEN [c EXCEPT !.done = TRUE, !.result = TRUE]
  ELSE LET parentId == c.getParentId[c.current] IN
       IF parentId = Null \/ parentId = TreeRoot
       THEN [c EXCEPT !.lookups = @ + 1, !.done = TRUE, !.result = FALSE]
       ELSE [c EXCEPT !.lookups = @ + 1, !.current = parentId, !.depth = @ + 1]

walkFrame ==
  <<byId, tabToBookmarkId, urlToBookmarkIds, pinnedIds, roots, rootFolderId, detached, backgroundVars>>

InitWalk ==
  /\ NewIndex /\ BackgroundLoaded
  /\ \E getParentId \in ParentMaps :
       \/ \E bookmarkId \in WalkIds \cup {""}, rootFolder \in {OtherId, FolderId}, maxDepth \in 0..MaxDepth :
            call = WalkCall("isUnderRoot", bookmarkId, rootFolder, getParentId, maxDepth)
       \/ \E bookmarkId \in WalkIds, rootFolder \in {OtherId, FolderId, Null} :
            call = WalkCall("isUnderRootAsync", bookmarkId, rootFolder, getParentId, MaxDepth)

WalkStep ==
  /\ call.op = "isUnderRoot" /\ ~call.done
  /\ call' = isUnderRoot(call)
  /\ UNCHANGED walkFrame

WalkStepAsync ==
  /\ call.op = "isUnderRootAsync" /\ ~call.done
  /\ call.lookups < MaxLookups
  /\ call' = isUnderRootAsync(call)
  /\ UNCHANGED walkFrame

NextWalk == WalkStep \/ WalkStepAsync

SpecWalk == InitWalk /\ [][NextWalk]_vars
SpecWalkFair == SpecWalk /\ WF_vars(WalkStep) /\ WF_vars(WalkStepAsync)

(***************************************************************************)
(* SpecUrls: urlsMatch (src/lib/urls.ts) as a function.  The state before  *)
(* a call holds three arguments; the one step evaluates urlsMatch on the   *)
(* pairs of them.                                                          *)
(***************************************************************************)
MatchUrls ==
  {UrlA, UrlASlash, UrlASlashes, UrlAHash, UrlAQuery, UrlAQuerySlashHash, UrlAQuery2, UrlADeep,
   UrlAUpper, UrlAHttp, UrlAHost, UrlARoot, UrlB, UrlBlank, UrlRaw, UrlRawSlash, "", Null, Undef}

MatchCall(url1, url2, url3) ==
  [op |-> "urlsMatch", url1 |-> url1, url2 |-> url2, url3 |-> url3, done |-> FALSE,
   r11 |-> FALSE, r12 |-> FALSE, r21 |-> FALSE, r23 |-> FALSE, r13 |-> FALSE]

InitUrls ==
  /\ NewIndex /\ BackgroundLoaded
  /\ \E url1 \in MatchUrls, url2 \in MatchUrls, url3 \in MatchUrls : call = MatchCall(url1, url2, url3)

UrlsMatch ==
  /\ call.op = "urlsMatch" /\ ~call.done
  /\ call' = [call EXCEPT !.done = TRUE,
                          !.r11 = urlsMatch(call.url1, call.url1),
                          !.r12 = urlsMatch(call.url1, call.url2),
                          !.r21 = urlsMatch(call.url2, call.url1),
                          !.r23 = urlsMatch(call.url2, call.url3),
                          !.r13 = urlsMatch(call.url1, call.url3)]
  /\ UNCHANGED walkFrame

NextUrls == UrlsMatch

SpecUrls == InitUrls /\ [][NextUrls]_vars

(***************************************************************************)
(* The properties.  A property of one call is stated over every state the  *)
(* index reaches and every argument of the call: the state is the call's   *)
(* pre-state, the operator applied to it its post-state.                   *)
(***************************************************************************)
\* the pairs <<bookmark id, tab id>> an index holds, in its tab map and in
\* its entries' tabId fields
Associations(s) ==
  {<<s.tabToBookmarkId[t], t>> : t \in DOMAIN s.tabToBookmarkId}
  \cup {<<b, s.byId[b].tabId>> : b \in {x \in DOMAIN s.byId : s.byId[x].tabId # Null}}

Bijective(s) ==
  \A p, q \in Associations(s) : (p[1] = q[1]) <=> (p[2] = q[2])

\* C1: in every state the index reaches through rebuild, associate,
\* dissociate, dissociateTab, tryAssociateByUrl, handleTabNavigation,
\* addBookmark, removeBookmark and updateBookmarkUrl, no tab id is associated
\* with two bookmarks and no bookmark with two tab ids, in the tab map and in
\* the entries' tabId fields alike.
C1_Bijection == Bijective(Self)

\* both bookmarks share a URL, one tab is taken by the first and another tab
\* by the second
C1_Witness ==
  /\ Cardinality(Associations(Self)) = 2
  /\ \A b \in BookmarkIds : b \in DOMAIN byId /\ byId[b].isLoaded /\ byId[b].url = UrlASlash

\* bookmark b and tab t are associated, in the tab map and in b's entry
AssociatedWith(s, b, t) ==
  /\ b \in DOMAIN s.byId /\ s.byId[b].tabId = t /\ s.byId[b].isLoaded
  /\ t \in DOMAIN s.tabToBookmarkId /\ s.tabToBookmarkId[t] = b

\* bookmark b is in the store and its entry holds no tab
Unassociated(s, b) ==
  b \in DOMAIN s.byId /\ s.byId[b].tabId = Null /\ ~s.byId[b].isLoaded

\* the unassociated bookmarks whose URL matches url
FreeMatches(s, url) ==
  {b \in DOMAIN s.byId : Unassociated(s, b) /\ urlsMatch(s.byId[b].url, url)}

\* C2: when a tab associated with bookmark S1 navigates to a URL that no
\* unassociated bookmark matches, then after handleTabNavigation S1 is still
\* associated with the tab and loaded, S1's tabUrl is the new URL, and every
\* other association is unchanged.
C2_NavigationKeeps ==
  \A tabId \in TabIds, newUrl \in TabUrls, withTab \in BOOLEAN, S1 \in DOMAIN byId :
    (AssociatedWith(Self, S1, tabId) /\ FreeMatches(Self, newUrl) = {})
    => LET after == handleTabNavigation(Self, tabId, newUrl, Snapshot(tabId, newUrl, withTab))
       IN  /\ AssociatedWith(after, S1, tabId)
           /\ after.byId[S1].tabUrl = newUrl
           /\ Associations(after) = Associations(Self)

\* C3: when a tab associated with bookmark S1 navigates to a URL that matches
\* an unassociated bookmark S2, then after handleTabNavigation S1 is
\* unassociated (tabId null, isLoaded false) and the tab is associated with
\* S2: with an unassociated bookmark matching the URL, where several do.
C3_NavigationReassigns ==
  \A tabId \in TabIds, newUrl \in TabUrls, withTab \in BOOLEAN, S1 \in DOMAIN byId :
    (AssociatedWith(Self, S1, tabId) /\ FreeMatches(Self, newUrl) # {})
    => LET after == handleTabNavigation(Self, tabId, newUrl, Snapshot(tabId, newUrl, withTab))
       IN  /\ Unassociated(after, S1)
           /\ \E S2 \in FreeMatches(Self, newUrl) : AssociatedWith(after, S2, tabId)

\* the tabs of a list that bookmark number i of the flattened tree can take:
\* those whose URL matches its URL and that no earlier bookmark holds
Fits(flat, tabs, i) ==
  SelectSeq(tabs, LAMBDA t : /\ urlsMatch(t.url, flat[i].url)
                             /\ \A j \in 1..(i - 1) : byId[flat[j].id].tabId # t.id)

\* C4: rebuild associates each non-folder bookmark, taken in tree traversal
\* order, with the first tab of the input list whose URL matches and that no
\* earlier bookmark has consumed, and leaves it unassociated when there is no
\* such tab; folders and the tabs nobody took stay unassociated.  So of the
\* bookmarks sharing a URL that one tab matches, only the earliest is
\* associated.
C4_RebuildFirstFit ==
  call.done =>
    LET flat == flatBookmarks(call.tree) IN
    /\ \A i \in DOMAIN flat :
         IF Fits(flat, call.tabs, i) = <<>>
         THEN Unassociated(Self, flat[i].id)
         ELSE AssociatedWith(Self, flat[i].id, Fits(flat, call.tabs, i)[1].id)
    /\ \A p \in Associations(Self) : \E i \in DOMAIN flat : flat[i].id = p[1]
    /\ \A i \in DOMAIN flat :
         Cardinality({k \in DOMAIN call.tabs : urlsMatch(call.tabs[k].url, flat[i].url)}) = 1
         => (byId[flat[i].id].isLoaded <=> \A h \in 1..(i - 1) : ~urlsMatch(flat[h].url, flat[i].url))

\* a rebuild of two bookmarks sharing a URL, with one matching tab among two:
\* the earlier bookmark has the tab, the later has none
C4_Witness ==
  /\ call.done
  /\ Len(call.tabs) = 2
  /\ LET flat == flatBookmarks(call.tree) IN
     /\ Len(flat) = 2
     /\ flat[1].url # flat[2].url
     /\ urlsMatch(flat[1].url, flat[2].url)
     /\ Cardinality({k \in DOMAIN call.tabs : urlsMatch(call.tabs[k].url, flat[1].url)}) = 1
     /\ byId[flat[1].id].isLoaded
     /\ ~byId[flat[2].id].isLoaded

\* the arguments rebuild is tried with in every state: the trees and tab
\* lists it is called with, a pinned order, the other root
RebuildArgs ==
  {[tree |-> tree, tabs |-> tabs, pinned |-> pinned, root |-> BarId] :
     tree \in FlatTrees, tabs \in TabLists, pinned \in {<<>>, <<BookmarkNames[1], FolderId>>}}

RebuildOf(s, a) == rebuild(s, a.tree, a.tabs, a.pinned, a.root)

\* C5: the state after rebuild(T, L, P, R) is a function of its arguments
\* only: after any history of operations it is the state rebuild(T, L, P, R)
\* gives a new index (entities, associations, URL index, pinned order and root
\* id), and a second call with the same arguments changes nothing.
C5_RebuildFunction ==
  \A a \in RebuildArgs :
    /\ RebuildOf(Self, a) = RebuildOf(EmptyIndex, a)
    /\ RebuildOf(RebuildOf(Self, a), a) = RebuildOf(Self, a)

\* an index holding an association for a bookmark its store does not hold,
\* which a rebuild without tabs discards
C5_Witness ==
  /\ \E t \in DOMAIN tabToBookmarkId : tabToBookmarkId[t] \notin DOMAIN byId
  /\ \E b \in DOMAIN byId : byId[b].isLoaded
  /\ \E a \in RebuildArgs :
       /\ RebuildOf(Self, a).tabToBookmarkId = EmptyMap
       /\ RebuildOf(Self, a).rootFolderId # rootFolderId

\* every id of the pinned order is the id of an entry of the store
PinnedInStore(s) == \A i \in DOMAIN s.pinnedIds : s.pinnedIds[i] \in DOMAIN s.byId

C8_IsPinnedAgrees ==
  \A id \in DOMAIN byId : byId[id].isPinned <=> Includes(pinnedIds, id)

\* a pinned order holding an id of the store and an id the store does not
\* hold, beside an entry that is not pinned
C8_Witness ==
  /\ \E id \in DOMAIN byId : byId[id].isPinned /\ Includes(pinnedIds, id)
  /\ \E id \in PinIds : id \in DOMAIN byId /\ ~byId[id].isPinned
  /\ \E id \in PinIds : id \notin DOMAIN byId /\ Includes(pinnedIds, id)

\* a list without its occurrences of id
Without(list, id) == SelectSeq(list, LAMBDA x : x # id)

\* C9: pin(id) on an id that is already pinned leaves the pinned order
\* unchanged, and pin(id) followed by unpin(id) leaves id absent from the
\* pinned order with isPinned false, the other pinned ids in their order.
C9_PinUnpin ==
  \A id \in PinIds :
    /\ Includes(pinnedIds, id) => pin(Self, id).pinnedIds = pinnedIds
    /\ LET after == unpin(pin(Self, id), id) IN
       /\ ~Includes(after.pinnedIds, id)
       /\ id \in DOMAIN after.byId => ~after.byId[id].isPinned
       /\ after.pinnedIds = Without(pinnedIds, id)

\* three ids are pinned, the first of them an entry of the store: pin then
\* unpin of it leaves the other two, and pin then unpin of an id that was not
\* pinned leaves the order as it was
C9_Witness ==
  /\ Len(pinnedIds) = 3
  /\ pinnedIds[1] \in DOMAIN byId /\ byId[pinnedIds[1]].isPinned
  /\ unpin(pin(Self, pinnedIds[1]), pinnedIds[1]).pinnedIds = <<pinnedIds[2], pinnedIds[3]>>
  /\ ~unpin(pin(Self, pinnedIds[1]), pinnedIds[1]).byId[pinnedIds[1]].isPinned

\* C10: reorderPinned(id, toIndex) on a pinned id yields a list holding the
\* same ids as before, with id at position max(0, min(toIndex, length - 1))
\* (counted from 0) and the other ids in their previous relative order; when
\* id is not pinned the order is unchanged; reorderItem computes the same
\* list.
C10_ReorderClamps ==
  \A id \in PinIds, toIndex \in ToIndexes :
    LET after == reorderPinned(Self, id, toIndex).pinnedIds
        length == Len(pinnedIds)
    IN  /\ IF Includes(pinnedIds, id)
           THEN /\ Len(after) = length
                /\ Range(after) = Range(pinnedIds)
                /\ after[Max(0, Min(toIndex, length - 1)) + 1] = id
                /\ Without(after, id) = Without(pinnedIds, id)
           ELSE after = pinnedIds
        /\ reorderItem(pinnedIds, id, toIndex) = after

\* three ids are pinned: the first moved to index 1 lands in the middle, moved
\* past the end it lands last, and the last moved to index -1 lands first
C10_Witness ==
  /\ Len(pinnedIds) = 3
  /\ reorderPinned(Self, pinnedIds[1], 1).pinnedIds = <<pinnedIds[2], pinnedIds[1], pinnedIds[3]>>
  /\ reorderPinned(Self, pinnedIds[1], MaxPinned + 1).pinnedIds = <<pinnedIds[2], pinnedIds[3], pinnedIds[1]>>
  /\ reorderPinned(Self, pinnedIds[3], -1).pinnedIds = <<pinnedIds[3], pinnedIds[1], pinnedIds[2]>>

\* C11: cleanupPinned removes from the pinned order exactly the ids that are
\* not in the store, keeps the remaining ids in their previous order (and the
\* entries' isPinned flags with them), and returns true exactly when at least
\* one id was removed.
C11_CleanupPinned ==
  LET after == cleanupPinned(Self).index IN
  /\ Range(after.pinnedIds) = Range(pinnedIds) \cap DOMAIN byId
  /\ NoDup(after.pinnedIds)
  /\ \A i, j \in DOMAIN after.pinnedIds :
       i < j => IndexOf(pinnedIds, after.pinnedIds[i]) < IndexOf(pinnedIds, after.pinnedIds[j])
  /\ cleanupPinned(Self).result <=> \E i \in DOMAIN pinnedIds : pinnedIds[i] \notin DOMAIN byId
  /\ DOMAIN after.byId = DOMAIN byId
  /\ \A id \in DOMAIN byId : after.byId[id].isPinned <=> Includes(after.pinnedIds, id)

\* three pinned ids of which the second alone is in the store, as in the
\* repository's test: cleanupPinned returns true and leaves that id
C11_Witness ==
  /\ Len(pinnedIds) = 3
  /\ pinnedIds[1] \notin DOMAIN byId /\ pinnedIds[2] \in DOMAIN byId /\ pinnedIds[3] \notin DOMAIN byId
  /\ cleanupPinned(Self).result
  /\ cleanupPinned(Self).index.pinnedIds = <<pinnedIds[2]>>

\* the bookmarks of the store that hold no tab and whose normalized URL is
\* the normalized url
FreeCandidates(s, url) ==
  {b \in DOMAIN s.byId : /\ Unassociated(s, b)
                         /\ Truthy(s.byId[b].url)
                         /\ normalizeUrl(url) # Null
                         /\ normalizeUrl(s.byId[b].url) = normalizeUrl(url)}

\* C12: tryAssociateByUrl(tab, url) associates the tab with the first
\* bookmark (in the order of the URL's set) among those whose normalized URL
\* equals the normalized url and that are not already associated, and returns
\* its id; when there is no such bookmark it returns null and changes nothing
\* in the index.
C12_TryAssociateByUrl ==
  \A tabId \in TabIds, url \in Urls, withTab \in BOOLEAN :
    LET try == tryAssociateByUrl(Self, tabId, url, Snapshot(tabId, url, withTab))
        free == FreeCandidates(Self, url)
    IN  IF free = {}
        THEN try.result = Null /\ try.index = Self
        ELSE /\ try.result \in free
             /\ AssociatedWith(try.index, try.result, tabId)
             /\ \A b \in free :
                  IndexOf(urlToBookmarkIds[normalizeUrl(url)], try.result)
                    <= IndexOf(urlToBookmarkIds[normalizeUrl(url)], b)
             /\ \A b \in free \ {try.result} : Unassociated(try.index, b)

\* two bookmarks share a URL, the first holds a tab and the second none: the
\* other tab, at a URL that matches after normalization only, gets the second;
\* and a tab at a URL no free bookmark has gets none
C12_Witness ==
  /\ AssociatedWith(Self, BookmarkNames[1], TabNames[1])
  /\ FreeCandidates(Self, UrlAHash) = {BookmarkNames[2]}
  /\ urlToBookmarkIds[normalizeUrl(UrlAHash)] = <<BookmarkNames[1], BookmarkNames[2]>>
  /\ tryAssociateByUrl(Self, TabNames[2], UrlAHash, NoTabInfo).result = BookmarkNames[2]
  /\ tryAssociateByUrl(Self, TabNames[2], UrlB, NoTabInfo).result = Null


\* C13: associate(b, t) on a bookmark of the store ends with b associated with
\* t and with nothing else: no other bookmark holds t, b holds no other tab,
\* the bookmark that held t before is left unassociated (tabId null, isLoaded
\* false) and the tab that b held before is associated with no bookmark.
C13_AssociateExclusive ==
  \A b \in DOMAIN byId, t \in TabIds, withTab \in BOOLEAN :
    LET after == associate(Self, b, t, Snapshot(t, UrlB, withTab)) IN
    /\ AssociatedWith(after, b, t)
    /\ \A p \in Associations(after) : (p[1] = b \/ p[2] = t) => p = <<b, t>>
    /\ \A oldB \in DOMAIN byId \ {b} :
         <<oldB, t>> \in Associations(Self) => Unassociated(after, oldB)
    /\ \A oldT \in TabIds \ {t} :
         <<b, oldT>> \in Associations(Self)
           => \A p \in Associations(after) : p[2] # oldT

\* the first bookmark holds the first tab and the second bookmark the second
\* tab; associate(first bookmark, second tab) leaves the second bookmark
\* unassociated and the first tab out of the tab map
C13_Witness ==
  /\ AssociatedWith(Self, BookmarkNames[1], TabNames[1])
  /\ AssociatedWith(Self, BookmarkNames[2], TabNames[2])
  /\ LET after == associate(Self, BookmarkNames[1], TabNames[2], NoTabInfo) IN
       /\ AssociatedWith(after, BookmarkNames[1], TabNames[2])
       /\ Unassociated(after, BookmarkNames[2])
       /\ TabNames[1] \notin DOMAIN after.tabToBookmarkId


\* the entry of b as dissociate leaves it
Cleared(s, b) ==
  /\ s.byId[b].tabId = Null
  /\ ~s.byId[b].isLoaded
  /\ ~s.byId[b].isActive
  /\ s.byId[b].tabUrl = Undef
  /\ s.byId[b].favIconUrl = Undef

\* C14: dissociate(b) and dissociateTab(t) remove the association in both
\* directions: afterwards the bookmark has tabId null, isLoaded false, isActive
\* false and no tabUrl or favIconUrl, and the tab is associated with no
\* bookmark.
C14_DissociateBothWays ==
  /\ \A b \in DOMAIN byId :
       LET after == dissociate(Self, b) IN
       /\ Cleared(after, b)
       /\ \A p \in Associations(after) : p[1] # b
       /\ \A t \in TabIds :
            <<b, t>> \in Associations(Self) => \A p \in Associations(after) : p[2] # t
  /\ \A t \in DOMAIN tabToBookmarkId :
       LET b == tabToBookmarkId[t]
           after == dissociateTab(Self, t)
       IN  /\ \A p \in Associations(after) : p[2] # t /\ p[1] # b
           /\ b \in DOMAIN byId => Cleared(after, b)

\* an active, loaded bookmark with the tab's URL and icon recorded, which
\* dissociate and dissociateTab both clear
C14_Witness ==
  \E b \in DOMAIN byId, t \in TabIds :
    /\ AssociatedWith(Self, b, t)
    /\ byId[b].isActive /\ byId[b].tabUrl # Undef /\ byId[b].favIconUrl # Undef
    /\ Cleared(dissociate(Self, b), b)
    /\ dissociateTab(Self, t) = dissociate(Self, b)
    /\ t \notin DOMAIN dissociate(Self, b).tabToBookmarkId


\* the isActive flags and tab ids of the items of a projection: the elements
\* of pinned, the nodes of bookmarks at every depth, the elements of openTabs
ItemMarks(view) ==
  LET tree == AllNodes(view.bookmarks) IN
  [i \in DOMAIN view.pinned |-> <<view.pinned[i].isActive, view.pinned[i].tabId>>]
    \o [i \in DOMAIN tree |-> <<tree[i].isActive, tree[i].tabId>>]
    \o [i \in DOMAIN view.openTabs |-> <<view.openTabs[i].isActive, view.openTabs[i].tabId>>]

OneActive(view) ==
  LET marks == ItemMarks(view)
      active == {i \in DOMAIN marks : marks[i][1]}
  IN  /\ Cardinality(active) <= 1
      /\ \A i \in active : marks[i][2] = view.activeTabId
      /\ view.activeTabId = Null => active = {}

\* C15: in every projection returned by getState(activeTabId, tabs), after
\* any sequence of index operations, at most one item across pinned, bookmarks
\* and openTabs has isActive true, that item's tab id equals activeTabId, and
\* no item is active when activeTabId is null.
C15_OneActiveItem ==
  \A activeTabId \in TabIds \cup {Null} :
    OneActive(getState(Self, detached, activeTabId, PanelTabs).result)


RECURSIVE PreOrder(_, _)
\* the ids of a forest in pre-order, each with its depth
PreOrder(nodes, depth) ==
  IF nodes = <<>> THEN <<>>
  ELSE <<<<Head(nodes).id, depth>>>> \o PreOrder(Head(nodes).children, depth + 1)
         \o PreOrder(Tail(nodes), depth)

\* the nodes of the kept tree below and including the root folder
UnderRoot == SelectSeq(roots, LAMBDA r : r.id = rootFolderId)

\* a pinned id whose object in the tree is not a folder
PinnedLeaf(id) == Includes(pinnedIds, id) /\ ~Resolve(Self, detached, id).isFolder

\* C16: getState lists in pinned the pinned entries in pinned order, skipping
\* the ids with no entry, and in bookmarks the tree under the root folder
\* with every pinned non-folder entry removed at every depth and everything
\* else in place; a folder is never removed, even when its id is pinned or it
\* ends up empty, and no non-folder entry is in both pinned and bookmarks.
C16_PinnedAndTree ==
  \A activeTabId \in TabIds \cup {Null} :
    LET view == getState(Self, detached, activeTabId, PanelTabs).result
        shown == AllNodes(view.bookmarks)
    IN  /\ [i \in DOMAIN view.pinned |-> view.pinned[i].id]
             = SelectSeq(pinnedIds, LAMBDA id : id \in DOMAIN byId)
        /\ \A i \in DOMAIN view.pinned :
             view.pinned[i].isPinned /\ view.pinned[i].url = byId[view.pinned[i].id].url
        /\ PreOrder(view.bookmarks, 0)
             = SelectSeq(PreOrder(UnderRoot, 0), LAMBDA n : n[2] = 0 \/ ~PinnedLeaf(n[1]))
        /\ \A n \in Range(AllNodes(UnderRoot)) :
             Resolve(Self, detached, n.id).isFolder => \E i \in DOMAIN shown : shown[i].id = n.id
        /\ \A i \in DOMAIN view.pinned, j \in DOMAIN shown :
             view.pinned[i].id = shown[j].id => shown[j].isFolder

\* the folder and the bookmark inside it are pinned, and so is the id of a
\* removed bookmark: pinned shows the folder and the bookmark inside it,
\* bookmarks shows the root folder and the folder, empty
C16_Witness ==
  /\ pinnedIds = <<FolderId, BookmarkNames[1], BookmarkNames[2]>>
  /\ BookmarkNames[1] \notin DOMAIN byId
  /\ BookmarkNames[2] \in DOMAIN byId
  /\ PreOrder(UnderRoot, 0) = <<<<OtherId, 0>>, <<FolderId, 1>>, <<BookmarkNames[2], 2>>, <<BookmarkNames[1], 1>>>>
  /\ LET view == getState(Self, detached, Null, PanelTabs).result IN
       /\ Len(view.pinned) = 2 /\ view.pinned[1].id = FolderId /\ view.pinned[2].id = BookmarkNames[2]
       /\ PreOrder(view.bookmarks, 0) = <<<<OtherId, 0>>, <<FolderId, 1>>>>


\* the tab lists given to getState: every tab once, at a page, at an internal
\* page, at a page whose URL only holds chrome://, or without a URL
ShownUrls == {UrlB, UrlChrome, UrlExtension, UrlQuoting, Undef}
ShownTabLists ==
  {l \in SeqsUpTo({TabInfo(t, u, IconOf(t)) : t \in TabIds, u \in ShownUrls}, MaxTabs) :
     \A i, j \in DOMAIN l : i # j => l[i].id # l[j].id}

\* C17: a tab passed to getState appears in openTabs exactly when it has no
\* association in the index and its URL does not start with chrome:// or
\* chrome-extension://; it appears once, and the order of openTabs follows the
\* order of the input tabs.
C17_OpenTabs ==
  \A allTabs \in ShownTabLists :
    LET openTabs == getState(Self, detached, Null, allTabs).result.openTabs
        At(t) == {j \in DOMAIN openTabs : openTabs[j].tabId = t.id}
    IN  /\ \A i \in DOMAIN allTabs :
             /\ At(allTabs[i]) # {}
                  <=> /\ allTabs[i].id \notin DOMAIN tabToBookmarkId
                      /\ allTabs[i].url \notin {UrlChrome, UrlExtension}
             /\ Cardinality(At(allTabs[i])) <= 1
             /\ \A j \in At(allTabs[i]) : openTabs[j].url = allTabs[i].url
        /\ \A j \in DOMAIN openTabs : \E i \in DOMAIN allTabs : j \in At(allTabs[i])
        /\ \A i, k \in DOMAIN allTabs :
             i < k => \A j \in At(allTabs[i]), m \in At(allTabs[k]) : j < m

\* one tab is associated and the other is not: of the two given in the other
\* order only the free one is listed, unless it is at an internal page
C17_Witness ==
  /\ TabNames[1] \in DOMAIN tabToBookmarkId /\ TabNames[2] \notin DOMAIN tabToBookmarkId
  /\ LET free(u) == TabInfo(TabNames[2], u, IconOf(TabNames[2]))
         held == TabInfo(TabNames[1], UrlB, IconOf(TabNames[1]))
         open(u) == getState(Self, detached, Null, <<free(u), held>>).result.openTabs
     IN  /\ Len(open(UrlQuoting)) = 1 /\ open(UrlQuoting)[1].tabId = TabNames[2]
         /\ open(UrlChrome) = <<>> /\ open(UrlExtension) = <<>>
         /\ Len(open(Undef)) = 1


\* the arguments of updateTabInfo: the URL, the icon, both or neither
TabInfoUpdates == {[url |-> u, favIconUrl |-> i] : u \in {Undef, UrlB}, i \in {Undef, "icon2"}}

\* the calls of the claim that take a bookmark id, on an id the store does
\* not hold
UnknownIdCalls(id) ==
  {associate(Self, id, t, NoTabInfo) : t \in TabIds}
    \cup {dissociate(Self, id), pin(Self, id), unpin(Self, id), removeBookmark(Self, id),
          updateBookmarkTitle(Self, id, "renamed")}
    \cup {reorderPinned(Self, id, toIndex) : toIndex \in ToIndexes}
    \cup {updateBookmarkUrl(Self, id, newUrl, tabs) : newUrl \in BmUrls, tabs \in TabLists}

\* the calls of the claim that take a tab id, on a tab with no association
FreeTabCalls(t) ==
  {dissociateTab(Self, t)} \cup {updateTabInfo(Self, t, info) : info \in TabInfoUpdates}

\* C18: every operation called with a bookmark id that is not in the store
\* (associate, dissociate, pin, unpin, reorderPinned, removeBookmark,
\* updateBookmarkUrl, updateBookmarkTitle) or with a tab id that has no
\* association (dissociateTab, updateTabInfo) leaves the whole index state
\* unchanged.
C18_UnknownIdNoOp ==
  /\ \A id \in AllIds \ DOMAIN byId : UnknownIdCalls(id) = {Self}
  /\ \A t \in TabIds \ DOMAIN tabToBookmarkId : FreeTabCalls(t) = {Self}


\* C19: activateTab creates a new tab for a bookmark only when the bookmark
\* has no open tab, and under any interleaving of activateTab requests and
\* tab events a bookmark never has a second tab created for it while a tab
\* created for it earlier is still open: no two open tabs were created by
\* activateTab for the same bookmark.
C19_NoSecondTab ==
  \A t1, t2 \in DOMAIN chrome.createdFor :
    t1 # t2 => chrome.createdFor[t1] # chrome.createdFor[t2]

\* C20: under every interleaving of the background handlers at their await
\* points, bookmarkToTab and tabToBookmark are mutual inverses: tabToBookmark
\* maps t to b exactly when bookmarkToTab maps b to t.
C20_MutualInverses ==
  \A b \in BookmarkIds, t \in TabIds :
    (t \in DOMAIN tabToBookmark /\ tabToBookmark[t] = b) <=> Get(bookmarkToTab, b) = t

(***************************************************************************)
(* C22.  When addTabToGroup(tab, zone) completes and no call of the        *)
(* chrome API other than the validation of the remembered handle was       *)
(* rejected, the zone's handle names a group, the tab is a member of that  *)
(* group, the group has the zone's title and colour and is not collapsed   *)
(* (also when it existed before and was collapsed), and a new group was    *)
(* made only if the remembered handle was null or named no group and no    *)
(* group had the zone's title.                                             *)
(***************************************************************************)
GroupCalls == {call_ \in [tabId : GroupTabIds, zone : Zones] : chrome.nextGroup <= MaxGroups}

ValidHandle(w, zone) == HandleOf(w, zone) # Null /\ HandleOf(w, zone) \in DOMAIN w.chrome.groups

Dressed(c, groupId, zone) ==
  c.groups[groupId] = [title |-> LabelOf(zone), color |-> ColorOf(zone), collapsed |-> FALSE]

C22_AddTabToGroup ==
  \A args \in GroupCalls :
    LET after == addTabToGroup(Grouping, args.tabId, args.zone) IN
    ~after.failed =>
      /\ ValidHandle(after, args.zone)
      /\ GroupOf(after.chrome, args.tabId) = HandleOf(after, args.zone)
      /\ Dressed(after.chrome, HandleOf(after, args.zone), args.zone)
      /\ after.created = (after.chrome.nextGroup # chrome.nextGroup)
      /\ after.created => /\ ~ValidHandle(Grouping, args.zone)
                          /\ tabGroupsQuery(chrome, LabelOf(args.zone)) = <<>>

\* a tab joins the group of the remembered handle, which the user had
\* collapsed
C22_Witness ==
  \E args \in GroupCalls :
    /\ ValidHandle(Grouping, args.zone)
    /\ chrome.groups[HandleOf(Grouping, args.zone)].collapsed
    /\ GroupOf(chrome, args.tabId) # HandleOf(Grouping, args.zone)
    /\ ~addTabToGroup(Grouping, args.tabId, args.zone).failed

(***************************************************************************)
(* C23.  After recoverGroupIds, for each zone of which the browser had at  *)
(* least one group with the zone's title: the zone's handle is the first   *)
(* of those groups, every tab that was in one of them is in the first,     *)
(* and the first is the only group left with the title.                    *)
(***************************************************************************)
C23_RecoverGroupIds ==
  LET after == recoverGroupIds(Grouping) IN
  \A zone \in Zones :
    LET before == tabGroupsQuery(chrome, LabelOf(zone)) IN
    before # <<>> =>
      /\ HandleOf(after, zone) = before[1]
      /\ \A i \in DOMAIN before : TabsIn(chrome, before[i]) \subseteq TabsIn(after.chrome, before[1])
      /\ tabGroupsQuery(after.chrome, LabelOf(zone)) = <<before[1]>>

\* two groups carry the same title when recoverGroupIds is called, and the
\* handle is null or names another group than the first
C23_Witness ==
  \E zone \in Zones :
    /\ Len(tabGroupsQuery(chrome, LabelOf(zone))) >= 2
    /\ HandleOf(Grouping, zone) # tabGroupsQuery(chrome, LabelOf(zone))[1]

(***************************************************************************)
(* C24.  After positionGroups: if the pinned handle is not null, its group *)
(* exists and its tabs are the leftmost tabs of the strip; if the          *)
(* bookmarks handle is not null, its group exists and its tabs follow the  *)
(* last tab of the pinned group directly, or are the leftmost tabs when    *)
(* the pinned handle is null; and a handle that named no group before the  *)
(* call (so that its move was rejected) is null.                           *)
(***************************************************************************)
FirstOf(strip, groupId) ==
  CHOOSE i \in DOMAIN strip : /\ strip[i].groupId = groupId
                              /\ \A j \in DOMAIN strip : strip[j].groupId = groupId => i <= j

InManagedGroup(c, tabId) ==
  /\ GroupOf(c, tabId) # NoGroup
  /\ c.groups[GroupOf(c, tabId)].title \in Labels

C25_UngroupIfNotManaged ==
  \A tabId \in GroupTabIds :
    /\ ~InManagedGroup(ungroupIfNotManaged(Grouping, tabId, FALSE).chrome, tabId)
    /\ ungroupIfNotManaged(Grouping, tabId, TRUE).chrome = chrome
    /\ (GroupOf(chrome, tabId) # NoGroup /\ ~InManagedGroup(chrome, tabId)) =>
         ungroupIfNotManaged(Grouping, tabId, FALSE).chrome = chrome

(***************************************************************************)
(* C26.  When a call of the chrome API inside addTabToGroup, ungroupTab,   *)
(* positionGroups or ungroupIfNotManaged is rejected, the function returns *)
(* without raising, and a handle that named a group which no longer exists *)
(* names no such group when the function returns: it is null, or it names  *)
(* an existing group.                                                      *)
(***************************************************************************)
GroupingResults ==
  {addTabToGroup(Grouping, args.tabId, args.zone) : args \in GroupCalls}
    \cup {ungroupTab(Grouping, tabId) : tabId \in GroupTabIds}
    \cup {positionGroups(Grouping)}
    \cup {ungroupIfNotManaged(Grouping, tabId, FALSE) : tabId \in GroupTabIds}

Vanished(zone) == HandleOf(Grouping, zone) # Null /\ ~ValidHandle(Grouping, zone)

C26_HostFailures ==
  \A after \in GroupingResults :
    (after.failed \/ after.stale) =>
      /\ ~after.raised
      /\ \A zone \in Zones :
           Vanished(zone) => (HandleOf(after, zone) = Null \/ ValidHandle(after, zone))

(***************************************************************************)
(* C21.  Whenever no handler is in progress and no timer is pending, every *)
(* open tab that tabToBookmark gives to a pinned bookmark is in a group    *)
(* with the pinned title, every open tab it gives to a bookmark that is    *)
(* not pinned is in a group with the bookmarks title, and every other open *)
(* tab is in no group with one of the two titles.                          *)
(***************************************************************************)
C21_GroupMatchesZone ==
  tasks = <<>> =>
    \A e \in Range(chrome.strip) :
      IF e.id \in DOMAIN tabToBookmark
      THEN /\ e.groupId # NoGroup
           /\ chrome.groups[e.groupId].title = LabelOf(ZoneOf(tabToBookmark[e.id], bgPinnedIds))
      ELSE ~InManagedGroup(chrome, e.id)

(***************************************************************************)
(* C27.  Calls of notifySidePanel that each come less than the window      *)
(* after the one before (while the callback is pending) cause one          *)
(* stateUpdated message: at any time the messages sent are as many as the  *)
(* bursts that have ended, a message is sent only when a whole window has  *)
(* passed since the last call, and every pending callback is followed by   *)
(* its message.                                                            *)
(***************************************************************************)
OnePerBurst ==
  messages.sent = messages.bursts - (IF notifyTimeout.armed THEN 1 ELSE 0)

AfterLastCall ==
  [][messages'.sent # messages.sent => messages.sinceCall >= Window]_vars

C27_Debounce ==
  /\ []OnePerBurst
  /\ AfterLastCall
  /\ (notifyTimeout.armed ~> ~notifyTimeout.armed)

\* two bursts, the second of more than one call, and both messages sent
C27_Witness ==
  /\ messages.bursts = 2 /\ messages.calls >= 3 /\ messages.sent = 2

(***************************************************************************)
(* C28.  Every walk toward the root returns, whatever the parent links; it *)
(* asks for a parent at most maxDepth times (the walk of background.js has *)
(* no maxDepth of its own and is held to the default one); and when the    *)
(* parent links from the bookmark never reach the root folder, the tree    *)
(* root or an end (a cycle), it returns false.                             *)
(***************************************************************************)
RECURSIVE Ancestor(_, _, _)
Ancestor(getParentId, id, k) ==
  IF k = 0 \/ id \notin DOMAIN getParentId THEN id
  ELSE Ancestor(getParentId, getParentId[id], k - 1)

OnCycle(c) ==
  \A k \in 0..MaxLookups :
    Ancestor(c.getParentId, c.bookmarkId, k) \in WalkIds \ {c.rootFolderId}

WalkBounded(c) ==
  /\ c.lookups <= c.maxDepth
  /\ (c.done /\ OnCycle(c)) => ~c.result

C28_WalkTerminates ==
  /\ <>call.done
  /\ []WalkBounded(call)

\* the walk of src/lib/state.ts alone: it returns, bounded, on every input
C28_StateWalkTerminates ==
  (call.op = "isUnderRoot") => (<>call.done /\ []WalkBounded(call))

\* a walk of src/lib/state.ts round a cycle of two folders that has used up its depth
C28_Witness ==
  /\ call.op = "isUnderRoot"
  /\ call.done /\ OnCycle(call) /\ call.maxDepth = MaxDepth
  /\ call.getParentId[call.bookmarkId] # call.bookmarkId
  /\ call.lookups = MaxDepth

(***************************************************************************)
(* C29.  urlsMatch(a, b) is false when a or b is null, undefined or empty. *)
(* Otherwise, when both parse, it is true exactly when the origins are     *)
(* equal, the paths are equal up to a run of "/" at the end of each and    *)
(* the query strings are equal (the fragment plays no part); when one does *)
(* not parse, it is true exactly when the raw strings are equal.  On       *)
(* non-empty arguments it is reflexive, symmetric and transitive.          *)
(***************************************************************************)
AllSlashes(p, from) == \A i \in from..Len(p) : p[i] = "/"

SamePathUpToSlashes(p, q) ==
  \E k \in 0..Len(p), l \in 0..Len(q) :
    /\ SubSeq(p, 1, k) = SubSeq(q, 1, l)
    /\ AllSlashes(p, k + 1) /\ AllSlashes(q, l + 1)

Absent(u) == u \in {Null, Undef, ""}

ShouldMatch(a, b) ==
  IF Absent(a) \/ Absent(b) THEN FALSE
  ELSE IF ParseUrl(a).ok /\ ParseUrl(b).ok
       THEN /\ ParseUrl(a).origin = ParseUrl(b).origin
            /\ SamePathUpToSlashes(ParseUrl(a).pathname, ParseUrl(b).pathname)
            /\ ParseUrl(a).search = ParseUrl(b).search
       ELSE a = b

C29_UrlsMatch ==
  (call.op = "urlsMatch" /\ call.done) =>
    /\ call.r12 = ShouldMatch(call.url1, call.url2)
    /\ ~Absent(call.url1) => call.r11
    /\ call.r12 = call.r21
    /\ (~Absent(call.url1) /\ ~Absent(call.url2) /\ ~Absent(call.url3) /\ call.r12 /\ call.r23)
         => call.r13

\* three different strings with different paths and fragments that match one another
C29_Witness ==
  /\ call.op = "urlsMatch" /\ call.done
  /\ call.url1 = UrlAQuery /\ call.url2 = UrlAQuerySlashHash
  /\ call.r12 /\ call.r21 /\ call.r11
  /\ ParseUrl(call.url1).pathname # ParseUrl(call.url2).pathname

(***************************************************************************)
(* C30.  In a state that rebuild(T, L, P, R) produced, addBookmark,        *)
(* removeBookmark and updateBookmarkUrl each leave the associations and    *)
(* the getState projection that rebuild gives on the tree with the same    *)
(* change made to it, with the same tabs, pinned ids and root.             *)
(***************************************************************************)
InsertAt(seq, index, x) ==
  LET k == IF index > Len(seq) THEN Len(seq) ELSE index
  IN  SubSeq(seq, 1, k) \o <<x>> \o SubSeq(seq, k + 1, Len(seq))

RECURSIVE TreeWith(_, _, _)
\* the tree after bookmarks.create: the node at `index` among the children of its parent
TreeWith(nodes, node, index) ==
  [i \in DOMAIN nodes |->
     IF nodes[i].id = node.parentId
     THEN [nodes[i] EXCEPT !.children = InsertAt(@, index, node)]
     ELSE [nodes[i] EXCEPT !.children = TreeWith(@, node, index)]]

RECURSIVE TreeWithout(_, _)
\* the tree after bookmarks.remove
TreeWithout(nodes, id) ==
  LET kept == SelectSeq(nodes, LAMBDA n : n.id # id)
  IN  [i \in DOMAIN kept |-> [kept[i] EXCEPT !.children = TreeWithout(@, id)]]

RECURSIVE TreeWithUrl(_, _, _)
\* the tree after bookmarks.update of the url
TreeWithUrl(nodes, id, newUrl) ==
  [i \in DOMAIN nodes |->
     IF nodes[i].id = id THEN [nodes[i] EXCEPT !.url = newUrl]
     ELSE [nodes[i] EXCEPT !.children = TreeWithUrl(@, id, newUrl)]]

SameAssociations(incremental, full) == incremental.tabToBookmarkId = full.tabToBookmarkId

SameProjection(incremental, det, full) ==
  \A activeTabId \in {Null} \cup {t.id : t \in Range(call.tabs)} :
    getState(incremental, det, activeTabId, call.tabs).result
      = getState(full, EmptyMap, activeTabId, call.tabs).result

RebuiltFrom(tree) == rebuild(Self, tree, call.tabs, call.pinned, OtherId)

Rebuilt == call.op = "rebuild" /\ call.done

AddAgrees(Same(_, _, _)) ==
  \A id \in BookmarkIds \ NodeIds(call.tree), url \in WideBmUrls, index \in 0..MaxBookmarks :
    LET node == Node(id, url, OtherId, <<>>)
    IN  Same(addBookmark(Self, node, call.tabs), DetachedAfter(Self, detached, id),
             RebuiltFrom(TreeWith(call.tree, node, index)))

RemoveAgrees(Same(_, _, _)) ==
  \A id \in BookmarkIds \cap NodeIds(call.tree) :
    Same(removeBookmark(Self, id), DetachedAfter(Self, detached, id),
         RebuiltFrom(TreeWithout(call.tree, id)))

UpdateAgrees(Same(_, _, _)) ==
  \A id \in BookmarkIds \cap NodeIds(call.tree), newUrl \in WideBmUrls :
    Same(updateBookmarkUrl(Self, id, newUrl, call.tabs), detached,
         RebuiltFrom(TreeWithUrl(call.tree, id, newUrl)))

AssociationsOnly(incremental, det, full) == SameAssociations(incremental, full)
ProjectionOnly(incremental, det, full) == SameProjection(incremental, det, full)
Both(incremental, det, full) ==
  SameAssociations(incremental, full) /\ SameProjection(incremental, det, full)

C30_IncrementalAgrees ==
  Rebuilt => (AddAgrees(Both) /\ RemoveAgrees(Both) /\ UpdateAgrees(Both))

(***************************************************************************)
(* C31.  In an index whose entries and reverse map agree,                  *)
(* addBookmark(node, tabs), for a bookmark the store does not hold, and    *)
(* updateBookmarkUrl(id, url, tabs), for one it holds, associate the       *)
(* entry with the first tab of tabs whose URL matches the (new) URL and    *)
(* that no bookmark holds at that moment (for updateBookmarkUrl: once the  *)
(* entry has let go of its own tab); without such a tab the entry is left  *)
(* unassociated; the association of every other bookmark is as before;     *)
(* and after updateBookmarkUrl every tab of the entry is a tab of tabs     *)
(* whose URL matches the new URL.                                          *)
(***************************************************************************)
\* the entries agree with the reverse map, and isLoaded with tabId
FieldsAgree(s) ==
  /\ \A t \in DOMAIN s.tabToBookmarkId :
       LET b == s.tabToBookmarkId[t] IN b \in DOMAIN s.byId /\ s.byId[b].tabId = t
  /\ \A b \in DOMAIN s.byId :
       /\ s.byId[b].tabId # Null =>
            (s.byId[b].tabId \in DOMAIN s.tabToBookmarkId /\ s.tabToBookmarkId[s.byId[b].tabId] = b)
       /\ s.byId[b].isLoaded <=> (s.byId[b].tabId # Null)

\* the tabs of the list that match url and that no bookmark but `own` holds
FreeTabs(s, tabs, url, own) ==
  SelectSeq(tabs, LAMBDA t : /\ urlsMatch(t.url, url)
                             /\ \/ t.id \notin DOMAIN s.tabToBookmarkId
                                \/ s.tabToBookmarkId[t.id] = own)

\* the tabs bookmark b has, by its entry and by the reverse map
TabsOf(s, b) ==
  {t \in DOMAIN s.tabToBookmarkId : s.tabToBookmarkId[t] = b}
    \cup (IF b \in DOMAIN s.byId /\ s.byId[b].tabId # Null THEN {s.byId[b].tabId} ELSE {})

TakesFirstFree(before, after, id, tabs, url, own) ==
  LET free == FreeTabs(before, tabs, url, own)
  IN  /\ IF free = <<>> THEN TabsOf(after, id) = {} /\ Unassociated(after, id)
         ELSE TabsOf(after, id) = {free[1].id} /\ AssociatedWith(after, id, free[1].id)
      /\ \A b \in (DOMAIN before.byId \cup Range(before.tabToBookmarkId)) \ {id} :
           TabsOf(after, b) = TabsOf(before, b)

C32_FieldsAgree == FieldsAgree(Self)

(***************************************************************************)
(* C33.  In every state of the index an entry that holds no tab (tabId     *)
(* null) has no tabUrl and no favIconUrl and is not active.                *)
(***************************************************************************)
C33_UnloadedIsBare ==
  \A b \in DOMAIN byId :
    byId[b].tabId = Null =>
      (byId[b].tabUrl = Undef /\ byId[b].favIconUrl = Undef /\ ~byId[b].isActive)

(***************************************************************************)
(* C34.  When a tab associated with bookmark B navigates to a URL that     *)
(* normalizes to B's own URL, handleTabNavigation leaves the tab           *)
(* associated with B, whether or not an unassociated bookmark has the same *)
(* URL.                                                                    *)
(***************************************************************************)
\* the navigations of a tab of B to a URL that is still B's
SameUrlNavigations ==
  {n \in [tabId : TabIds, newUrl : TabUrls, withTab : BOOLEAN, B : DOMAIN byId] :
     /\ AssociatedWith(Self, n.B, n.tabId)
     /\ Truthy(byId[n.B].url)
     /\ normalizeUrl(n.newUrl) = normalizeUrl(byId[n.B].url)}

StaysWith(n) ==
  AssociatedWith(handleTabNavigation(Self, n.tabId, n.newUrl, Snapshot(n.tabId, n.newUrl, n.withTab)),
                 n.B, n.tabId)

C34_SameUrlKeeps == \A n \in SameUrlNavigations : StaysWith(n)

(***************************************************************************)
(* C35.  In every state of the index a bookmark id is in the URL index's   *)
(* set for a normalized URL exactly when the store holds an entry with     *)
(* that id that is no folder and whose URL normalizes to it; no set is     *)
(* empty; and so every stored bookmark whose URL matches a URL is in the   *)
(* set tryAssociateByUrl reads for that URL.                               *)
(***************************************************************************)
IndexedUnder(s, id) ==
  {n \in DOMAIN s.urlToBookmarkIds : Includes(s.urlToBookmarkIds[n], id)}

C35_UrlIndexExact ==
  /\ \A n \in DOMAIN urlToBookmarkIds : urlToBookmarkIds[n] # <<>> /\ NoDup(urlToBookmarkIds[n])
  /\ \A n \in DOMAIN urlToBookmarkIds :
       \A id \in Range(urlToBookmarkIds[n]) :
         id \in DOMAIN byId /\ ~byId[id].isFolder /\ normalizeUrl(byId[id].url) = n
  /\ \A id \in DOMAIN byId :
       (~byId[id].isFolder /\ normalizeUrl(byId[id].url) # Null)
         => IndexedUnder(Self, id) = {normalizeUrl(byId[id].url)}
  /\ \A id \in DOMAIN byId, url \in Urls :
       urlsMatch(byId[id].url, url) => normalizeUrl(url) \in IndexedUnder(Self, id)

\* two bookmarks share a URL and the one the tree lists first entered the
\* URL's set last, as after updateBookmarkUrl or after removal and return
C35_Witness ==
  /\ normalizeUrl(UrlASlash) \in DOMAIN urlToBookmarkIds
  /\ urlToBookmarkIds[normalizeUrl(UrlASlash)] = <<BookmarkNames[2], BookmarkNames[1]>>
  /\ normalizeUrl(UrlB) \notin DOMAIN urlToBookmarkIds

(***************************************************************************)
(* C36.  For getState(activeTabId, tabs) with the open tabs: every tab     *)
(* whose URL is not an internal page of the browser appears exactly once   *)
(* in the result, as the tabId of one entry of pinned or of the bookmarks  *)
(* tree, or as one item of openTabs.                                       *)
(***************************************************************************)
\* how often tab t appears in a PanelState: the entries of pinned, the nodes
\* of the bookmarks tree, the items of openTabs
Appearances(state, t) ==
  LET nodes == AllNodes(state.bookmarks)
  IN  Cardinality({i \in DOMAIN state.pinned : state.pinned[i].tabId = t})
        + Cardinality({i \in DOMAIN nodes : nodes[i].tabId = t})
        + Cardinality({i \in DOMAIN state.openTabs : state.openTabs[i].tabId = t})

C36_EveryTabOnce ==
  \A activeTabId \in TabIds \cup {Null} :
    LET state == getState(Self, detached, activeTabId, PanelTabs).result
    IN  \A i \in DOMAIN PanelTabs : Appearances(state, PanelTabs[i].id) = 1

(***************************************************************************)
(* C37.  After removeBookmark(f) for a folder f the store, the URL index   *)
(* and the pinned order hold no descendant of f, and no tab is associated  *)
(* with a descendant of f.                                                 *)
(***************************************************************************)
\* the ids below folder f in the tree of roots
Descendants(s, f) ==
  UNION {NodeIds(n.children) : n \in {m \in Range(AllNodes(s.roots)) : m.id = f}}

Holds(s, d) ==
  \/ d \in DOMAIN s.byId
  \/ \E n \in DOMAIN s.urlToBookmarkIds : Includes(s.urlToBookmarkIds[n], d)
  \/ Includes(s.pinnedIds, d)
  \/ \E t \in DOMAIN s.tabToBookmarkId : s.tabToBookmarkId[t] = d

\* f is a folder the user made: the browser does not remove its top-level folders
C37_FolderRemoval ==
  \A f \in {FolderId} \cap DOMAIN byId :
    byId[f].isFolder =>
      \A d \in Descendants(Self, f) : ~Holds(removeBookmark(Self, f), d)

(***************************************************************************)
(* C38.  If a tab is closed, or its bookmark is removed, while the tab's   *)
(* navigation handler is suspended inside tryAssociateTab, then once both  *)
(* handlers have finished neither bookmarkToTab nor tabToBookmark mentions *)
(* the closed tab or the removed bookmark.  Stated on the step in which    *)
(* the navigation handler of an associated tab finishes: if by then the    *)
(* tab is closed and tabs.onRemoved has run, no map mentions the tab       *)
(* after the step; if the bookmark the tab had is removed and              *)
(* bookmarks.onRemoved has run, no map mentions the bookmark.              *)
(***************************************************************************)
\* the tab is closed and no tabs.onRemoved listener for it is still to run
ClosedAndHandled(t) ==
  /\ t \notin DOMAIN chrome.tabs
  /\ \A k \in DOMAIN tasks : ~(tasks[k].kind = "tabs.onRemoved" /\ tasks[k].tabId = t)

\* the bookmark is removed and no bookmarks.onRemoved listener for it is
\* still to run
RemovedAndHandled(b) ==
  /\ b \notin DOMAIN chrome.bookmarks
  /\ \A k \in DOMAIN tasks : ~(tasks[k].kind = "bookmarks.onRemoved" /\ tasks[k].bookmarkId = b)

MentionTab(b2t, t2b, t) ==
  \/ t \in DOMAIN t2b
  \/ \E k \in DOMAIN b2t : b2t[k].tabId = t

MentionBookmark(b2t, t2b, b) ==
  \/ Has(b2t, b)
  \/ \E t \in DOMAIN t2b : t2b[t] = b

\* task i is the navigation handler of a tab that had a bookmark, suspended
\* in tryAssociateTab
SuspendedNavigation(i) ==
  /\ tasks[i].kind = "tabs.onUpdated"
  /\ tasks[i].pc = "fetch"
  /\ tasks[i].old # Undef

C38_ClosedDuringNavigation ==
  [][\A i \in DOMAIN tasks :
       (SuspendedNavigation(i) /\ tasks' = Drop(tasks, i)) =>
         /\ ClosedAndHandled(tasks[i].tabId) =>
              ~MentionTab(bookmarkToTab', tabToBookmark', tasks[i].tabId)
         /\ RemovedAndHandled(tasks[i].old) =>
              ~MentionBookmark(bookmarkToTab', tabToBookmark', tasks[i].old)]_vars

(***************************************************************************)
(* SpecAdds: calls of addTabToGroup (grouping.ts 74-103) running           *)
(* concurrently.  A call is a record in `tasks` that tells where the call  *)
(* stands; every step runs one call from the `await` it is suspended at,   *)
(* with the outcome the browser gives at that moment, up to its next       *)
(* `await` or its end.  The arguments of a call of the API are evaluated   *)
(* when the call is made, and are kept in the record.  A call that has     *)
(* returned stays in `tasks` with pc "done".  The user opens tabs and       *)
(* closes none; the handles are null at first and the window has no group. *)
(***************************************************************************)
MaxAdds == 2

\* a call of addTabToGroup(tabId, zone): groupId is the local variable,
\* moved and index are the arguments of the chrome.tabGroups.move awaited
AddCall(pc, tabId, zone, groupId) ==
  [kind |-> "addTabToGroup", pc |-> pc, tabId |-> tabId, zone |-> zone, groupId |-> groupId,
   moved |-> Null, index |-> 0]

addsFrame == <<byId, tabToBookmarkId, urlToBookmarkIds, pinnedIds, roots, rootFolderId, detached, call,
               bookmarkToTab, tabToBookmark, bgPinnedIds, notifyTimeout, messages>>

\* positionGroups from its second `if` to its next await or its end
positionBookmarked(w, task) ==
  IF w.bookmarkedGroupId # Null
  THEN [task EXCEPT !.pc = "moveBookmarked", !.moved = w.bookmarkedGroupId,
                    !.index = IF w.pinnedGroupId # Null THEN 1 ELSE 0]
  ELSE [task EXCEPT !.pc = "done"]

\* positionGroups from its first line to its next await or its end
positionPinned(w, task) ==
  IF w.pinnedGroupId # Null
  THEN [task EXCEPT !.pc = "movePinned", !.moved = w.pinnedGroupId, !.index = 0]
  ELSE positionBookmarked(w, task)

\* addTabToGroup, called for an open tab, up to the first await of ensureGroup
AddTabToGroupStart ==
  \E tabId \in {e.id : e \in Range(chrome.strip)}, zone \in Zones :
    /\ Len(tasks) < MaxAdds
    /\ LET groupId == HandleOf(Grouping, zone) IN
         tasks' = Append(tasks, AddCall(IF groupId # Null THEN "get" ELSE "query", tabId, zone, groupId))
    /\ UNCHANGED <<chrome, pinnedGroupId, bookmarkedGroupId, addsFrame>>

\* ensureGroup after `await chrome.tabGroups.get(currentGroupId)`
EnsureGroupGet ==
  \E i \in DOMAIN tasks :
    /\ tasks[i].kind = "addTabToGroup" /\ tasks[i].pc = "get"
    /\ tasks' = [tasks EXCEPT ![i].pc = IF tabGroupsGet(chrome, tasks[i].groupId).ok
                                        THEN "group" ELSE "query"]
    /\ UNCHANGED <<chrome, pinnedGroupId, bookmarkedGroupId, addsFrame>>

\* ensureGroup after `await chrome.tabGroups.query({ title: label })`, with
\* consolidateGroups
EnsureGroupQuery ==
  \E i \in DOMAIN tasks :
    /\ tasks[i].kind = "addTabToGroup" /\ tasks[i].pc = "query"
    /\ LET groups == tabGroupsQuery(chrome, LabelOf(tasks[i].zone)) IN
         IF groups # <<>>
         THEN /\ chrome' = consolidateGroups(chrome, groups, groups[1], 2)
              /\ tasks' = [tasks EXCEPT ![i].pc = "group", ![i].groupId = groups[1]]
         ELSE /\ tasks' = [tasks EXCEPT ![i].pc = "group", ![i].groupId = NoGroup]
              /\ UNCHANGED chrome
    /\ UNCHANGED <<pinnedGroupId, bookmarkedGroupId, addsFrame>>

\* addTabToGroup after `await chrome.tabs.group(...)`; a rejection ends the
\* call in its catch
AddTabsGroup ==
  \E i \in DOMAIN tasks :
    /\ tasks[i].kind = "addTabToGroup" /\ tasks[i].pc = "group"
    /\ LET grouped == IF tasks[i].groupId = NoGroup THEN tabsGroupNew(chrome, tasks[i].tabId)
                      ELSE tabsGroupInto(chrome, tasks[i].tabId, tasks[i].groupId)
       IN  /\ chrome' = grouped.chrome
           /\ tasks' = IF grouped.ok
                       THEN [tasks EXCEPT ![i].pc = "update", ![i].groupId = grouped.groupId]
                       ELSE [tasks EXCEPT ![i].pc = "done"]
    /\ UNCHANGED <<pinnedGroupId, bookmarkedGroupId, addsFrame>>

\* addTabToGroup after `await chrome.tabGroups.update(...)`: the handle is
\* assigned and positionGroups runs to its first await
AddTabGroupsUpdate ==
  \E i \in DOMAIN tasks :
    /\ tasks[i].kind = "addTabToGroup" /\ tasks[i].pc = "update"
    /\ LET zone == tasks[i].zone
           updated == tabGroupsUpdate(chrome, tasks[i].groupId,
                                      [title |-> LabelOf(zone), color |-> ColorOf(zone), collapsed |-> FALSE])
           w == SetHandle(Grouping, zone, tasks[i].groupId)
       IN  /\ chrome' = updated.chrome
           /\ IF updated.ok
              THEN /\ pinnedGroupId' = w.pinnedGroupId
                   /\ bookmarkedGroupId' = w.bookmarkedGroupId
                   /\ tasks' = [tasks EXCEPT ![i] = positionPinned(w, @)]
              ELSE /\ tasks' = [tasks EXCEPT ![i].pc = "done"]
                   /\ UNCHANGED <<pinnedGroupId, bookmarkedGroupId>>
    /\ UNCHANGED addsFrame

\* positionGroups after `await chrome.tabGroups.move(pinnedGroupId, ...)`
PositionMovePinned ==
  \E i \in DOMAIN tasks :
    /\ tasks[i].kind = "addTabToGroup" /\ tasks[i].pc = "movePinned"
    /\ LET moved == tabGroupsMove(chrome, tasks[i].moved, tasks[i].index)
           w == IF moved.ok THEN Grouping ELSE [Grouping EXCEPT !.pinnedGroupId = Null]
       IN  /\ chrome' = moved.chrome
           /\ pinnedGroupId' = w.pinnedGroupId
           /\ tasks' = [tasks EXCEPT ![i] = positionBookmarked(w, @)]
    /\ UNCHANGED <<bookmarkedGroupId, addsFrame>>

\* positionGroups after `await chrome.tabGroups.move(bookmarkedGroupId, ...)`
PositionMoveBookmarked ==
  \E i \in DOMAIN tasks :
    /\ tasks[i].kind = "addTabToGroup" /\ tasks[i].pc = "moveBookmarked"
    /\ LET moved == tabGroupsMove(chrome, tasks[i].moved, tasks[i].index) IN
         /\ chrome' = moved.chrome
         /\ bookmarkedGroupId' = IF moved.ok THEN bookmarkedGroupId ELSE Null
    /\ tasks' = [tasks EXCEPT ![i].pc = "done"]
    /\ UNCHANGED <<pinnedGroupId, addsFrame>>

NextAdds ==
  \/ UserOpensTab
  \/ AddTabToGroupStart
  \/ EnsureGroupGet
  \/ EnsureGroupQuery
  \/ AddTabsGroup
  \/ AddTabGroupsUpdate
  \/ PositionMovePinned
  \/ PositionMoveBookmarked

SpecAdds == Init /\ [][NextAdds]_vars

(***************************************************************************)
(* C39.  For any interleaving of two addTabToGroup calls for the same      *)
(* category that start when no group with that label exists, when both     *)
(* have completed at most one group with that label exists, it contains    *)
(* both tabs, and the category's handle names it.                          *)
(***************************************************************************)
\* calls i and j are two calls for the same category and both have returned
BothCompleted(i, j) ==
  /\ i # j
  /\ tasks[i].pc = "done" /\ tasks[j].pc = "done"
  /\ tasks[i].zone = tasks[j].zone

C39_ConcurrentAdds ==
  \A i, j \in DOMAIN tasks :
    BothCompleted(i, j) =>
      LET groups == tabGroupsQuery(chrome, LabelOf(tasks[i].zone)) IN
        /\ Len(groups) <= 1
        /\ groups # <<>> =>
             /\ {tasks[i].tabId, tasks[j].tabId} \subseteq TabsIn(chrome, groups[1])
             /\ HandleOf(Grouping, tasks[i].zone) = groups[1]

====
